---------------------------- MODULE Spec2Model ----------------------------
(***************************************************************************)
(* Model of the task-inbox aggregation of productive-mcp: the task_inbox   *)
(* tool (src/src/tools/pages.ts), the inbox command-line script            *)
(* (src/src/cli/inbox.ts), the my_tasks tool (src/src/tools/my-tasks.ts)   *)
(* and the API client requests they issue (src/src/api/client.ts).         *)
(*                                                                         *)
(* Texts are TLA+ strings; TLC evaluates Len, \o and SubSeq on them, so    *)
(* the text functions below work character by character as the code does. *)
(***************************************************************************)
EXTENDS Integers, Sequences, FiniteSets, TLC

\* ------------------------------------------------------------------------
\* Bounds of the model
\* ------------------------------------------------------------------------

\* Longest task list the task-listing request returns in the model.
MaxTasks == 2

\* Most keywords a comment body enumerated for the suggestion engine carries.
MaxKeywords == 2

\* Most fragments (tags, entities, pieces of them) a text handed to
\* stripHtml is put together from.
MaxFragments == 2

\* Oldest activity, in whole days, that formatRelativeTime is called with.
MaxDays == 61

\* Longest text handed to truncate, and the largest maxLength it is called with.
MaxTextLength == 10
MaxLength == 8

\* ------------------------------------------------------------------------
\* Text primitives (JavaScript String methods used by the code)
\* ------------------------------------------------------------------------

\* s.substring(i - 1, j): characters i..j, 1-based, clipped to the text.
Slice(s, i, j) ==
  SubSeq(s, IF i < 1 THEN 1 ELSE i, IF j > Len(s) THEN Len(s) ELSE j)

\* s.charAt(i - 1): the i-th character, 1-based; "" outside the text.
CharAt(s, i) == Slice(s, i, i)

\* s.slice(i - 1): the suffix starting at the i-th character.
Drop(s, i) == SubSeq(s, i, Len(s))

\* s.includes(sub)
Includes(s, sub) ==
  \E i \in 1..(Len(s) - Len(sub) + 1) : SubSeq(s, i, i + Len(sub) - 1) = sub

\* array.join(sep)
RECURSIVE JoinWith(_, _)
JoinWith(seq, sep) ==
  IF seq = << >> THEN ""
  ELSE IF Len(seq) = 1 THEN seq[1]
  ELSE seq[1] \o sep \o JoinWith(Tail(seq), sep)

\* s.replace(/pat/g, rep) for a literal pattern: leftmost, non-overlapping.
RECURSIVE ReplaceAll(_, _, _)
ReplaceAll(s, pat, rep) ==
  IF Len(s) < Len(pat) THEN s
  ELSE IF SubSeq(s, 1, Len(pat)) = pat
       THEN rep \o ReplaceAll(Drop(s, Len(pat) + 1), pat, rep)
       ELSE CharAt(s, 1) \o ReplaceAll(Drop(s, 2), pat, rep)

\* Position of the first occurrence of character c in s at or after i; 0 if none.
RECURSIVE IndexFrom(_, _, _)
IndexFrom(s, c, i) ==
  IF i > Len(s) THEN 0
  ELSE IF CharAt(s, i) = c THEN i
  ELSE IndexFrom(s, c, i + 1)

\* s.replace(/<[^>]*>/g, ''): a '<' together with everything up to the next '>'
\* is removed; a '<' that no '>' follows stays.
RECURSIVE RemoveTags(_)
RemoveTags(s) ==
  IF s = "" THEN ""
  ELSE IF CharAt(s, 1) = "<" /\ IndexFrom(s, ">", 2) # 0
       THEN RemoveTags(Drop(s, IndexFrom(s, ">", 2) + 1))
       ELSE CharAt(s, 1) \o RemoveTags(Drop(s, 2))

IsSpace(c) == c \in {" ", "\n", "\t", "\r"}

RECURSIVE TrimStart(_)
TrimStart(s) ==
  IF s # "" /\ IsSpace(CharAt(s, 1)) THEN TrimStart(Drop(s, 2)) ELSE s

RECURSIVE TrimEnd(_)
TrimEnd(s) ==
  IF s # "" /\ IsSpace(CharAt(s, Len(s)))
  THEN TrimEnd(SubSeq(s, 1, Len(s) - 1)) ELSE s

\* s.trim()
Trim(s) == TrimEnd(TrimStart(s))

UpperCaseLetters == "ABCDEFGHIJKLMNOPQRSTUVWXYZ"
LowerCaseLetters == "abcdefghijklmnopqrstuvwxyz"

LowerChar(c) ==
  IF \E i \in 1..26 : CharAt(UpperCaseLetters, i) = c
  THEN CharAt(LowerCaseLetters, CHOOSE i \in 1..26 : CharAt(UpperCaseLetters, i) = c)
  ELSE c

\* s.toLowerCase()
RECURSIVE ToLowerCase(_)
ToLowerCase(s) ==
  IF s = "" THEN "" ELSE LowerChar(CharAt(s, 1)) \o ToLowerCase(Drop(s, 2))

\* ------------------------------------------------------------------------
\* Text Normalizer
\* ------------------------------------------------------------------------

\* Mutant of stripHtml: the quotation-mark entity is not decoded.
stripHtmlWithoutQuot(html) ==
  Trim(ReplaceAll(ReplaceAll(ReplaceAll(ReplaceAll(
         RemoveTags(html),
         "&nbsp;", " "), "&amp;", "&"), "&lt;", "<"), "&gt;", ">"))

\* stripHtml: tags removed, then the five entities decoded in the code's
\* order, then trimmed.
stripHtml(html) ==
  Trim(ReplaceAll(ReplaceAll(ReplaceAll(ReplaceAll(ReplaceAll(
         RemoveTags(html),
         "&nbsp;", " "), "&amp;", "&"), "&lt;", "<"), "&gt;", ">"), "&quot;", "\""))

\* text.slice(0, e): a negative e counts from the end of the text.
SliceTo(text, e) ==
  IF e >= 0 THEN Slice(text, 1, e)
  ELSE IF Len(text) + e > 0 THEN Slice(text, 1, Len(text) + e) ELSE ""

\* Mutant of truncate: maxLength characters are kept before the ellipsis.
truncateKeepingAll(text, maxLength) ==
  IF Len(text) <= maxLength THEN text
  ELSE SliceTo(text, maxLength) \o "..."

\* truncate(text, maxLength)
truncate(text, maxLength) ==
  IF Len(text) <= maxLength THEN text
  ELSE SliceTo(text, maxLength - 3) \o "..."

\* cleanMentions: text.replace(/@\[\{[^}]*"label"\s*:\s*"([^"]+)"[^}]*\}\]/g, '@$1').
\* NoMention is the failed match; a match records the label captured and the
\* position of its closing ']'.
NoMention == [end |-> 0, label |-> ""]

RECURSIVE SkipSpaces(_, _)
SkipSpaces(s, i) ==
  IF i <= Len(s) /\ IsSpace(CharAt(s, i)) THEN SkipSpaces(s, i + 1) ELSE i

\* The rest of the pattern from a position j where "label" (quoted) starts:
\* \s* : \s* " ([^"]+) " [^}]* } ]
MentionTail(s, j) ==
  LET colon == SkipSpaces(s, j + 7)
      quote == SkipSpaces(s, colon + 1)
      close == IndexFrom(s, "\"", quote + 1)
      brace == IndexFrom(s, "}", close + 1)
  IN IF /\ Slice(s, j, j + 6) = "\"label\""
        /\ CharAt(s, colon) = ":"
        /\ CharAt(s, quote) = "\""
        /\ close > quote + 1
        /\ brace # 0
        /\ CharAt(s, brace + 1) = "]"
     THEN [end |-> brace + 1, label |-> SubSeq(s, quote + 1, close - 1)]
     ELSE NoMention

\* The match starting at position i, if any: the greedy [^}]* takes the last
\* "label" before the first '}' from which the rest of the pattern matches.
MentionAt(s, i) ==
  IF Slice(s, i, i + 2) # "@[{" THEN NoMention
  ELSE LET brace == IndexFrom(s, "}", i + 3)
           lim   == IF brace = 0 THEN Len(s) + 1 ELSE brace
           cands == {j \in (i + 3)..(lim - 1) : MentionTail(s, j).end # 0}
       IN IF cands = {} THEN NoMention
          ELSE MentionTail(s, CHOOSE j \in cands : \A k \in cands : k <= j)

RECURSIVE CleanFrom(_, _)
CleanFrom(s, i) ==
  IF i > Len(s) THEN ""
  ELSE IF MentionAt(s, i).end # 0
       THEN "@" \o MentionAt(s, i).label \o CleanFrom(s, MentionAt(s, i).end + 1)
       ELSE CharAt(s, i) \o CleanFrom(s, i + 1)

cleanMentions(text) == CleanFrom(text, 1)

\* Timestamps are whole hours on one clock; a day is HoursPerDay of them.
HoursPerDay == 24

\* date.toLocaleDateString(): the calendar day, in a fixed rendering.
toLocaleDateString(date) == "day " \o ToString(date \div HoursPerDay)

\* Mutant of formatRelativeTime: each range includes its upper limit.
formatRelativeTimeInclusive(isoDate, now) ==
  LET diffDays == (now - isoDate) \div HoursPerDay
  IN IF diffDays = 0 THEN "today"
     ELSE IF diffDays = 1 THEN "1 day ago"
     ELSE IF diffDays <= 7 THEN ToString(diffDays) \o " days ago"
     ELSE IF diffDays <= 14 THEN "1 week ago"
     ELSE IF diffDays <= 30 THEN ToString(diffDays \div 7) \o " weeks ago"
     ELSE IF diffDays <= 60 THEN "1 month ago"
     ELSE toLocaleDateString(isoDate)

\* formatRelativeTime(isoDate), evaluated at the instant now.
formatRelativeTime(isoDate, now) ==
  LET diffDays == (now - isoDate) \div HoursPerDay
  IN IF diffDays = 0 THEN "today"
     ELSE IF diffDays = 1 THEN "1 day ago"
     ELSE IF diffDays < 7 THEN ToString(diffDays) \o " days ago"
     ELSE IF diffDays < 14 THEN "1 week ago"
     ELSE IF diffDays < 30 THEN ToString(diffDays \div 7) \o " weeks ago"
     ELSE IF diffDays < 60 THEN "1 month ago"
     ELSE toLocaleDateString(isoDate)

\* ------------------------------------------------------------------------
\* Values of the remote service and of the configuration
\* ------------------------------------------------------------------------

\* An absent (undefined) text field, and an absent timestamp.
Undefined == "undefined"
NoTimestamp == 0 - 1

\* A falsy text in JavaScript: undefined or the empty string.
Falsy(v) == v \in {Undefined, ""}

\* a || b on texts
OrElse(a, b) == IF Falsy(a) THEN b ELSE a

\* The reading of the clock (new Date()) during the invocation, in hours.
Now == 100 * HoursPerDay

\* Config: PRODUCTIVE_USER_ID is optional; PRODUCTIVE_ORG_ID and
\* PRODUCTIVE_API_BASE_URL are always set.
Config(userId) ==
  [PRODUCTIVE_USER_ID |-> userId, PRODUCTIVE_ORG_ID |-> "acme",
   PRODUCTIVE_API_BASE_URL |-> "https://api.productive.io/api/v2/"]

Configs == { Config(u) : u \in {Undefined, "u7"} }

\* Tasks the remote service may return (ProductiveTask).
Task(id, title, description, lastActivity, updated, project, parent, status, due) ==
  [id |-> id,
   attributes |-> [title |-> title, description |-> description,
                   last_activity_at |-> lastActivity, updated_at |-> updated,
                   status |-> status, due_date |-> due],
   relationships |-> [project |-> project, parent_task |-> parent]]

TaskPool ==
  { Task("101", "Fix login", "<p>fix the login flow</p>",
         Now - 2, Now - 50, "pr1", Undefined, 1, "2026-01-31"),
    Task("102", "CRITICAL: payment bug", Undefined,
         NoTimestamp, Now - 8 * HoursPerDay, "pr2", "101", 1, Undefined),
    Task("103", "Bug in export", "<p>&nbsp;</p>",
         Now - 3 * HoursPerDay, Now - 3 * HoursPerDay, Undefined, Undefined, 2, Undefined) }

\* Entities of the included side channel.
Project(id, name) == [id |-> id, type |-> "projects", attributes |-> [name |-> name]]
Person(id, first, last, email) ==
  [id |-> id, type |-> "people",
   attributes |-> [first_name |-> first, last_name |-> last, email |-> email]]
IncludedTask(id, title) == [id |-> id, type |-> "tasks", attributes |-> [title |-> title]]

\* What the service inlines for a task list, by the include parameter.
TasksIncluded(include) ==
  IF include = "project" THEN << Person("p1", "Ann", "Lee", "ann@acme.io"), Project("pr1", "Website") >>
  ELSE IF include = "parent_task" THEN << IncludedTask("101", "Fix login") >>
  ELSE << >>

\* Comments (ProductiveComment) and the comment pages the service may return
\* for a page size of one.
Comment(id, body, creator) ==
  [id |-> id, attributes |-> [body |-> body], relationships |-> [creator |-> creator]]

CommentPages ==
  { [data |-> << >>, included |-> << >>],
    [data |-> << Comment("c1", "<p>Can you REVIEW this? @bob</p>", "p1") >>,
     included |-> << Person("p1", "Ann", "Lee", "ann@acme.io"), IncludedTask("101", "Fix login") >>],
    [data |-> << Comment("c2", "done &amp; deployed", "p2") >>,
     included |-> << >>],
    [data |-> << Comment("c3", "hi @[{\"type\":\"person\",\"id\":\"7\",\"label\":\"Bob\"}]", Undefined) >>,
     included |-> << Person("p2", "", "", "bo@acme.io") >>] }

\* ------------------------------------------------------------------------
\* Texts enumerated for the suggestion engine
\* ------------------------------------------------------------------------

Injective(seq) == \A i, j \in DOMAIN seq : i # j => seq[i] # seq[j]

Keywords ==
  { "close", "chiudi", "review", "controlla", "help", "aiut", "publish", "pubblica" }

KeywordLists ==
  { list \in UNION { [1..k -> Keywords] : k \in 0..MaxKeywords } : Injective(list) }

\* Comment bodies: keywords in some order, with or without a question mark
\* and a mention, and some with markup, entities and capitals.
SuggestBodies ==
  { "<p>so " \o JoinWith(list, " or ") \o marker \o "</p>" :
      list \in KeywordLists, marker \in { "", "?", " @bob", "? @bob" } }
  \cup { "<b>Please CLOSE</b> it &amp; Review?", "HELP @Bob", "Pubblica&nbsp;? ",
         "no markers: close review help publish", "a &lt; b ? <i>aiuto</i>",
         "<a href=\"x?y\">link</a> review", "mail bob@acme.io" }

SuggestTitles ==
  { "Fix login", "CRITICAL: payment bug", "Bug in export", "Critical outage",
    "^! check payments", "^! debug build", "Debugging notes" }

\* The texts the model's tasks and comments carry, and the text functions
\* tabulated over them (each table is computed once).
PoolTexts ==
  { t.attributes.title : t \in TaskPool }
    \cup { t.attributes.description : t \in TaskPool }
    \cup { page.data[1].attributes.body : page \in { q \in CommentPages : Len(q.data) > 0 } }
    \cup SuggestBodies \cup SuggestTitles

StrippedTexts == [t \in PoolTexts |-> stripHtml(t)]
Stripped(t) == IF t \in PoolTexts THEN StrippedTexts[t] ELSE stripHtml(t)

LowerCasedTexts ==
  [t \in PoolTexts \cup { StrippedTexts[u] : u \in PoolTexts } |-> ToLowerCase(t)]
LowerCased(t) == IF t \in DOMAIN LowerCasedTexts THEN LowerCasedTexts[t] ELSE ToLowerCase(t)

MentionCleanedTexts == [t \in { StrippedTexts[u] : u \in PoolTexts } |-> cleanMentions(t)]
MentionCleaned(t) ==
  IF t \in DOMAIN MentionCleanedTexts THEN MentionCleanedTexts[t] ELSE cleanMentions(t)

\* Raw answers of the transport to one request: a success with a JSON body,
\* a non-success status with an error document, or fetch itself failing.
HttpOk(body) == [kind |-> "ok", body |-> body, status |-> 200, detail |-> Undefined]
HttpError(status, detail) == [kind |-> "error", body |-> << >>, status |-> status, detail |-> detail]
FetchThrows(message) == [kind |-> "throw", body |-> << >>, status |-> 0, detail |-> message]

Failures ==
  { HttpError(500, Undefined), HttpError(422, "Invalid filter"), FetchThrows("fetch failed") }

\* ------------------------------------------------------------------------
\* Resource Client (src/src/api/client.ts)
\* ------------------------------------------------------------------------

\* An optional number is << >> when absent and << n >> when given.
Truthy(opt) == opt # << >> /\ opt[1] # 0

\* Parameters a caller may leave out.
NoTaskParams ==
  [project_id |-> Undefined, assignee_id |-> Undefined, status |-> Undefined,
   limit |-> << >>, page |-> << >>, sort |-> Undefined, include |-> << >>]
NoCommentParams ==
  [task_ids |-> << >>, project_ids |-> << >>, limit |-> << >>, page |-> << >>]

Param(cond, key, value) == IF cond THEN << << key, value >> >> ELSE << >>

\* listTasks: the GET request built from the parameters (queryParams.append
\* in the code's order).
listTasks(params) ==
  [method |-> "GET", path |-> "tasks",
   query |->
     Param(~Falsy(params.project_id), "filter[project_id]", params.project_id)
     \o Param(~Falsy(params.assignee_id), "filter[assignee_id]", params.assignee_id)
     \o Param(~Falsy(params.status), "filter[status]",
              IF params.status = "open" THEN "1" ELSE "2")
     \o Param(Truthy(params.limit), "page[size]",
              IF Truthy(params.limit) THEN ToString(params.limit[1]) ELSE "")
     \o Param(Truthy(params.page), "page[number]",
              IF Truthy(params.page) THEN ToString(params.page[1]) ELSE "")
     \o Param(~Falsy(params.sort), "sort", params.sort)
     \o Param(Len(params.include) > 0, "include", JoinWith(params.include, ","))]

\* Mutant of listComments: several task ids are sent as one comma-separated
\* task filter.
listCommentsJoiningIds(params) ==
  [method |-> "GET", path |-> "comments",
   query |->
     << << "include", "creator,task" >>, << "sort", "-created_at" >> >>
     \o Param(Len(params.task_ids) > 0, "filter[task_id]", JoinWith(params.task_ids, ","))
     \o Param(Len(params.project_ids) > 0, "filter[project_id]",
              JoinWith(params.project_ids, ","))
     \o Param(Truthy(params.limit), "page[size]",
              IF Truthy(params.limit) THEN ToString(params.limit[1]) ELSE "")
     \o Param(Truthy(params.page), "page[number]",
              IF Truthy(params.page) THEN ToString(params.page[1]) ELSE "")]

\* listComments: creator and task inlined, newest first; the task filter only
\* for exactly one task id.
listComments(params) ==
  [method |-> "GET", path |-> "comments",
   query |->
     << << "include", "creator,task" >>, << "sort", "-created_at" >> >>
     \o Param(Len(params.task_ids) = 1, "filter[task_id]",
              IF Len(params.task_ids) = 1 THEN params.task_ids[1] ELSE "")
     \o Param(Len(params.project_ids) > 0, "filter[project_id]",
              JoinWith(params.project_ids, ","))
     \o Param(Truthy(params.limit), "page[size]",
              IF Truthy(params.limit) THEN ToString(params.limit[1]) ELSE "")
     \o Param(Truthy(params.page), "page[number]",
              IF Truthy(params.page) THEN ToString(params.page[1]) ELSE "")]

\* The value of a query parameter of a request; Undefined when it has none.
QueryValue(request, key) ==
  IF \E i \in 1..Len(request.query) : request.query[i][1] = key
  THEN request.query[CHOOSE i \in 1..Len(request.query) : request.query[i][1] = key][2]
  ELSE Undefined

\* A promise: pending, fulfilled with a value, or rejected with an Error message.
Pending == [state |-> "pending", value |-> << >>, reason |-> ""]
Fulfilled(value) == [state |-> "fulfilled", value |-> value, reason |-> ""]
Rejected(reason) == [state |-> "rejected", value |-> << >>, reason |-> reason]

\* makeRequest: how the promise of one request settles on the transport's answer.
makeRequest(answer) ==
  IF answer.kind = "ok" THEN Fulfilled(answer.body)
  ELSE IF answer.kind = "error"
       THEN Rejected(OrElse(answer.detail,
                            "API request failed with status " \o ToString(answer.status)))
       ELSE Rejected(answer.detail)

\* URLSearchParams.toString() of a key or a value: the characters of the
\* model's requests that are percent-encoded.
Encode(text) == ReplaceAll(ReplaceAll(ReplaceAll(text, "[", "%5B"), "]", "%5D"), ",", "%2C")

\* The path of a request followed by its query string.
requestPath(request) ==
  request.path
    \o (IF Len(request.query) = 0 THEN ""
        ELSE "?" \o JoinWith([i \in DOMAIN request.query |->
                                Encode(request.query[i][1]) \o "="
                                  \o Encode(request.query[i][2])], "&"))

\* JSON.stringify(errorData, null, 2) of the body of a non-ok answer.
errorJson(answer) ==
  IF answer.detail = Undefined THEN "{}"
  ELSE "{\n  \"errors\": [\n    {\n      \"detail\": \"" \o answer.detail
         \o "\"\n    }\n  ]\n}"

\* The lines makeRequest writes with console.error for a non-ok response.
makeRequestLog(cfg, request, answer) ==
  IF answer.kind = "error"
  THEN << "API Error Response: " \o errorJson(answer),
          "Request was to: " \o cfg.PRODUCTIVE_API_BASE_URL \o requestPath(request) >>
  ELSE << >>

\* ------------------------------------------------------------------------
\* The remote service's answers
\* ------------------------------------------------------------------------

Min(a, b) == IF a < b THEN a ELSE b

\* The number a decimal text stands for (page sizes are at most 200).
ParseInt(text) == CHOOSE n \in 0..200 : ToString(n) = text

\* Task lists of at most n distinct tasks.
TaskLists(n) ==
  { list \in UNION { [1..k -> TaskPool] : k \in 0..n } : Injective(list) }

\* The service honours the page size of the request.
PageSize(request) ==
  IF QueryValue(request, "page[size]") = Undefined THEN MaxTasks
  ELSE Min(ParseInt(QueryValue(request, "page[size]")), MaxTasks)

TaskListAnswers(request) ==
  Failures \cup
  { HttpOk([data |-> list,
            included |-> TasksIncluded(QueryValue(request, "include")),
            meta |-> [total_count |-> total]]) :
      list \in TaskLists(PageSize(request)), total \in {<< >>, << 7 >>} }

CommentAnswers == Failures \cup { HttpOk(page) : page \in CommentPages }

\* ------------------------------------------------------------------------
\* Inbox Aggregator: lookup tables
\* ------------------------------------------------------------------------

\* Map.get(key) of a text-valued Map
Get(map, key) == IF key \in DOMAIN map THEN map[key] ELSE Undefined

OfType(entities, type) == SelectSeq(entities, LAMBDA e : e.type = type)

\* The index of the last entry of seq with the given id: a later Map.set of
\* the same key replaces the earlier one.
LastWith(seq, id) ==
  CHOOSE i \in DOMAIN seq :
    seq[i].id = id /\ \A j \in DOMAIN seq : seq[j].id = id => j <= i

\* projectMap: project id -> name, from the task list's included entities.
ProjectMapOf(tasksResponse) ==
  LET projects == OfType(tasksResponse.included, "projects")
  IN [id \in { projects[i].id : i \in DOMAIN projects } |->
        projects[LastWith(projects, id)].attributes.name]

RECURSIVE ConcatIncluded(_)
ConcatIncluded(responses) ==
  IF responses = << >> THEN << >>
  ELSE Head(responses).included \o ConcatIncluded(Tail(responses))

\* The display name of a person: "First Last" trimmed, else the email.
PersonName(person) ==
  OrElse(Trim(person.attributes.first_name \o " " \o person.attributes.last_name),
         person.attributes.email)

\* personMap: person id -> display name, merged over every comment response.
PersonMapOf(commentResponses) ==
  LET people == OfType(ConcatIncluded(commentResponses), "people")
  IN [id \in { people[i].id : i \in DOMAIN people } |->
        PersonName(people[LastWith(people, id)])]

\* taskCommentMap: task id -> first comment of the response at the task's index.
TaskCommentMapOf(taskIds, commentResponses) ==
  LET with == { i \in DOMAIN taskIds : Len(commentResponses[i].data) > 0 }
  IN [id \in { taskIds[i] : i \in with } |->
        commentResponses[CHOOSE i \in with :
                           taskIds[i] = id /\ \A j \in with : taskIds[j] = id => j <= i].data[1]]

\* Mutant of PromiseAllValues: the values in the order the promises settled.
PromiseAllValuesByArrival(promises, settled) ==
  [i \in DOMAIN promises |-> promises[settled[i]].value]

\* await Promise.all(promises): the values in the order of the promises,
\* whatever the order they settled in.
PromiseAllValues(promises, settled) == [i \in DOMAIN promises |-> promises[i].value]

\* Promise.all is fulfilled once every promise is, and rejected as soon as one is.
AllFulfilled(promises) == \A i \in DOMAIN promises : promises[i].state = "fulfilled"
SomeRejected(promises) == \E i \in DOMAIN promises : promises[i].state = "rejected"

\* Mutant of FanOut: one request for all the task ids together.
FanOutBatched(taskIds) ==
  << listComments([NoCommentParams EXCEPT !.task_ids = taskIds, !.limit = << 1 >>]) >>

\* The comment requests of the fan-out: one per task id, in list order.
FanOut(taskIds) ==
  [i \in DOMAIN taskIds |->
     listComments([NoCommentParams EXCEPT !.task_ids = << taskIds[i] >>, !.limit = << 1 >>])]

TaskIdsOf(tasksResponse) == [i \in DOMAIN tasksResponse.data |-> tasksResponse.data[i].id]

\* ------------------------------------------------------------------------
\* Inbox Aggregator: rendering
\* ------------------------------------------------------------------------

taskUrl(config, task) ==
  "https://app.productive.io/" \o config.PRODUCTIVE_ORG_ID \o "/tasks/" \o task.id

\* Mutant of projectNameOf: a miss in the lookup is rendered as it comes.
projectNameOfRaw(task, projectMap) ==
  IF Falsy(task.relationships.project) THEN "No Project"
  ELSE Get(projectMap, task.relationships.project)

projectNameOf(task, projectMap) ==
  IF Falsy(task.relationships.project) THEN "No Project"
  ELSE OrElse(Get(projectMap, task.relationships.project), "Unknown Project")

lastActivityOf(task) ==
  IF task.attributes.last_activity_at = NoTimestamp
  THEN task.attributes.updated_at ELSE task.attributes.last_activity_at

\* creatorId ? personMap.get(creatorId) || fallback : fallback
authorNameOf(comment, personMap, fallback) ==
  IF Falsy(comment.relationships.creator) THEN fallback
  ELSE OrElse(Get(personMap, comment.relationships.creator), fallback)

\* task.attributes.description ? stripHtml(task.attributes.description) : ''
taskDescriptionOf(task) ==
  IF Falsy(task.attributes.description) THEN "" ELSE Stripped(task.attributes.description)

\* The first line of a task's block: ordinal, URL, project, relative age.
blockHeader(index, task, config, projectMap) ==
  ToString(index) \o ". " \o taskUrl(config, task) \o " | "
    \o projectNameOf(task, projectMap) \o " | "
    \o formatRelativeTime(lastActivityOf(task), Now)

\* Mutant of contentBranch: the description is preferred to the comment.
contentBranchDescriptionFirst(task, taskCommentMap) ==
  IF taskDescriptionOf(task) # "" THEN "description"
  ELSE IF task.id \in DOMAIN taskCommentMap THEN "comment"
  ELSE "none"

\* Which of the three content branches a task takes.
contentBranch(task, taskCommentMap) ==
  IF task.id \in DOMAIN taskCommentMap THEN "comment"
  ELSE IF taskDescriptionOf(task) # "" THEN "description"
  ELSE "none"

\* The content line of the task_inbox tool.
contentLine(task, taskCommentMap, personMap) ==
  IF contentBranch(task, taskCommentMap) = "comment"
  THEN "   " \o authorNameOf(taskCommentMap[task.id], personMap, "Unknown") \o ": "
         \o Stripped(taskCommentMap[task.id].attributes.body)
  ELSE IF contentBranch(task, taskCommentMap) = "description"
  THEN "   Description: " \o taskDescriptionOf(task)
  ELSE "   No content"

\* const MAX_CONTENT_LENGTH = 200
MAX_CONTENT_LENGTH == 200

\* The content line of the command-line script: mentions cleaned, and the text
\* truncated unless --full was given.
cliContentLine(task, taskCommentMap, personMap, showFull) ==
  LET Shown(text) == IF showFull THEN text ELSE truncate(text, MAX_CONTENT_LENGTH)
  IN IF contentBranch(task, taskCommentMap) = "comment"
     THEN "   " \o authorNameOf(taskCommentMap[task.id], personMap, "Unknown") \o ": "
            \o Shown(MentionCleaned(Stripped(taskCommentMap[task.id].attributes.body)))
     ELSE IF contentBranch(task, taskCommentMap) = "description"
     THEN "   Description: " \o Shown(MentionCleaned(taskDescriptionOf(task)))
     ELSE "   No content"

\* Mutant of tasksOutputOf: the blocks are numbered 1..N but rendered from the
\* list in reverse.
tasksOutputReversed(tasks, config, projectMap, taskCommentMap, personMap) ==
  [i \in DOMAIN tasks |->
     blockHeader(i, tasks[Len(tasks) + 1 - i], config, projectMap) \o "\n"
       \o contentLine(tasks[Len(tasks) + 1 - i], taskCommentMap, personMap)]

\* tasksOutput of the tool: one block per task, in the order of the list.
tasksOutputOf(tasks, config, projectMap, taskCommentMap, personMap) ==
  [i \in DOMAIN tasks |->
     blockHeader(i, tasks[i], config, projectMap) \o "\n"
       \o contentLine(tasks[i], taskCommentMap, personMap)]

\* "Task Inbox (n tasks)" or "Task Inbox (n of total tasks)"
inboxHeader(tasksResponse) ==
  LET shown == Len(tasksResponse.data)
      totalCount == IF Truthy(tasksResponse.meta.total_count)
                    THEN tasksResponse.meta.total_count[1] ELSE shown
  IN "Task Inbox (" \o ToString(shown)
       \o (IF totalCount > shown THEN " of " \o ToString(totalCount) ELSE "")
       \o " tasks)"

\* ------------------------------------------------------------------------
\* Action Suggestion Engine
\* ------------------------------------------------------------------------

\* The warning emblem searched for in titles (U+26A0 U+FE0F in the source),
\* written here with a two-character ASCII stand-in.
WarningEmblem == "^!"

\* Mutant of commentRule: the help rule is tried before the review rule.
commentRuleHelpFirst(commentBody) ==
  IF Includes(commentBody, "?") \/ Includes(commentBody, "@")
  THEN IF Includes(commentBody, "close") \/ Includes(commentBody, "chiudi") THEN "close"
       ELSE IF Includes(commentBody, "help") \/ Includes(commentBody, "aiut") THEN "help"
       ELSE IF Includes(commentBody, "review") \/ Includes(commentBody, "controlla") THEN "review"
       ELSE IF Includes(commentBody, "publish") \/ Includes(commentBody, "pubblica") THEN "publish"
       ELSE IF Includes(commentBody, "?") THEN "question"
       ELSE "mention"
  ELSE "none"

\* The rule a comment body (stripped, lower-cased) falls under.
commentRule(commentBody) ==
  IF Includes(commentBody, "?") \/ Includes(commentBody, "@")
  THEN IF Includes(commentBody, "close") \/ Includes(commentBody, "chiudi") THEN "close"
       ELSE IF Includes(commentBody, "review") \/ Includes(commentBody, "controlla") THEN "review"
       ELSE IF Includes(commentBody, "help") \/ Includes(commentBody, "aiut") THEN "help"
       ELSE IF Includes(commentBody, "publish") \/ Includes(commentBody, "pubblica") THEN "publish"
       ELSE IF Includes(commentBody, "?") THEN "question"
       ELSE "mention"
  ELSE "none"

isCritical(taskTitle) ==
  Includes(LowerCased(taskTitle), "critical") \/ Includes(taskTitle, WarningEmblem)

isBug(taskTitle) == Includes(LowerCased(taskTitle), "bug")

\* Mutant of titleRule: the bug check precedes the critical check.
titleRuleBugFirst(taskTitle) ==
  IF isBug(taskTitle) THEN "bug"
  ELSE IF isCritical(taskTitle) THEN "critical"
  ELSE "none"

\* The rule a title falls under; consulted only for a task without a comment.
titleRule(taskTitle) ==
  IF isCritical(taskTitle) THEN "critical"
  ELSE IF isBug(taskTitle) THEN "bug"
  ELSE "none"

\* The rule of one task: by its latest comment if it has one, else by its title.
suggestionRule(task, taskCommentMap) ==
  IF task.id \in DOMAIN taskCommentMap
  THEN commentRule(LowerCased(Stripped(taskCommentMap[task.id].attributes.body)))
  ELSE titleRule(task.attributes.title)

\* Mutant of actionText: the script words a question as a mention.
actionTextQuestionAsMention(rule, taskNum, authorName, tool) ==
  LET num == "#" \o ToString(taskNum) \o " - "
  IN CASE rule = "close" ->
            num \o authorName \o " is asking about closing this task."
              \o (IF tool THEN " Review and respond." ELSE "")
       [] rule = "review" -> num \o "Review requested by " \o authorName \o "."
       [] rule = "help" -> num \o authorName \o " is asking for help."
       [] rule = "publish" -> num \o authorName \o " needs you to publish something."
       [] rule = "question" ->
            IF tool THEN num \o authorName \o " asked a question. Respond."
            ELSE num \o "You were mentioned."
       [] rule = "mention" ->
            num \o "You were mentioned." \o (IF tool THEN " Check and respond." ELSE "")
       [] rule = "critical" -> num \o "CRITICAL bug needs immediate attention."
       [] rule = "bug" -> num \o "Bug to investigate."

\* The text pushed for a rule; the tool adds a call to act to three of them.
actionText(rule, taskNum, authorName, tool) ==
  LET num == "#" \o ToString(taskNum) \o " - "
  IN CASE rule = "close" ->
            num \o authorName \o " is asking about closing this task."
              \o (IF tool THEN " Review and respond." ELSE "")
       [] rule = "review" -> num \o "Review requested by " \o authorName \o "."
       [] rule = "help" -> num \o authorName \o " is asking for help."
       [] rule = "publish" -> num \o authorName \o " needs you to publish something."
       [] rule = "question" ->
            num \o authorName \o " asked a question." \o (IF tool THEN " Respond." ELSE "")
       [] rule = "mention" ->
            num \o "You were mentioned." \o (IF tool THEN " Check and respond." ELSE "")
       [] rule = "critical" -> num \o "CRITICAL bug needs immediate attention."
       [] rule = "bug" -> num \o "Bug to investigate."

\* The suggestions pushed for the task at position taskNum: none or one.
actionItemsFor(taskNum, task, taskCommentMap, personMap, tool) ==
  LET rule == suggestionRule(task, taskCommentMap)
      authorName == IF task.id \in DOMAIN taskCommentMap
                    THEN authorNameOf(taskCommentMap[task.id], personMap, "Someone")
                    ELSE "Someone"
  IN IF rule = "none" THEN << >>
     ELSE << actionText(rule, taskNum, authorName, tool) >>

\* Mutant of actionItemsOf: a suggestion is numbered by its position among the
\* suggestions, not by the position of its task.
RECURSIVE actionItemsRenumbered(_, _, _, _, _)
actionItemsRenumbered(tasks, n, taskCommentMap, personMap, tool) ==
  IF n = 0 THEN << >>
  ELSE LET earlier == actionItemsRenumbered(tasks, n - 1, taskCommentMap, personMap, tool)
       IN earlier \o actionItemsFor(Len(earlier) + 1, tasks[n], taskCommentMap, personMap, tool)

\* actionItems after the loop over the first n tasks, in list order.
RECURSIVE actionItemsOf(_, _, _, _, _)
actionItemsOf(tasks, n, taskCommentMap, personMap, tool) ==
  IF n = 0 THEN << >>
  ELSE actionItemsOf(tasks, n - 1, taskCommentMap, personMap, tool)
         \o actionItemsFor(n, tasks[n], taskCommentMap, personMap, tool)

\* Mutant of actionItemsSection: the heading is written even with no item.
actionItemsSectionAlways(actionItems) ==
  "\n\nSuggested Actions:\n" \o JoinWith(actionItems, "\n")

actionItemsSection(actionItems) ==
  IF Len(actionItems) > 0 THEN "\n\nSuggested Actions:\n" \o JoinWith(actionItems, "\n")
  ELSE ""

\* ------------------------------------------------------------------------
\* State
\* ------------------------------------------------------------------------

VARIABLES
  mode,            \* the entry point invoked: "task_inbox", "cli_inbox" or "my_tasks"
  config,          \* the configuration the process was started with
  args,            \* the arguments of the invocation
  pc,              \* where the handler is: "start", "awaitTasks", "awaitComments", "done"
  requests,        \* every request handed to the transport, in order of issue
  tasksPromise,    \* the promise of the task-listing request
  tasksResponse,   \* the body of the task list, once received
  projectMap,      \* project id -> name
  promises,        \* the promises of the comment requests, by request index
  settled,         \* the indices of the comment promises, in the order they settled
  personMap,       \* person id -> display name
  taskCommentMap,  \* task id -> latest comment
  tasksOutput,     \* the blocks rendered, one per task
  actionItems,     \* the suggestions collected
  stdout,          \* lines written by console.log
  stderr,          \* lines written by console.error
  result           \* what the invocation ended with

vars ==
  << mode, config, args, pc, requests, tasksPromise, tasksResponse, projectMap,
     promises, settled, personMap, taskCommentMap, tasksOutput, actionItems, stdout, stderr, result >>

\* What an invocation ends with: a tool's text content, a tool's McpError,
\* the exit of the command-line process, or an Error thrown by the server's
\* handler.
NoResult == [kind |-> "pending", code |-> "", text |-> ""]
Content(text) == [kind |-> "content", code |-> "", text |-> text]
McpError(code, message) == [kind |-> "McpError", code |-> code, text |-> message]
Exit(code) == [kind |-> "exit", code |-> code, text |-> ""]
Thrown(message) == [kind |-> "Error", code |-> "", text |-> message]

NoResponse == [data |-> << >>, included |-> << >>, meta |-> [total_count |-> << >>]]

\* Arguments: limit is an optional number; showFull and showActions are the
\* script's flags; status and top_level_only are my_tasks's.
Args(limit, showFull, showActions, status, topLevelOnly) ==
  [limit |-> limit, showFull |-> showFull, showActions |-> showActions,
   status |-> status, top_level_only |-> topLevelOnly]

ArgsOf(m) ==
  IF m = "task_inbox"
  THEN { Args(l, FALSE, FALSE, Undefined, << >>) :
           l \in { << >>, << 0 >>, << 1 >>, << 50 >>, << 51 >> } }
  ELSE IF m = "cli_inbox"
  THEN { Args(l, f, a, Undefined, << >>) :
           l \in { << >>, << 1 >> }, f \in BOOLEAN, a \in BOOLEAN }
         \cup { Args(<< 51 >>, FALSE, FALSE, Undefined, << >>),
                Args(<< 0 >>, TRUE, TRUE, Undefined, << >>) }
  ELSE { Args(<< >>, FALSE, FALSE, Undefined, << >>),
         Args(<< 1 >>, FALSE, FALSE, "open", << FALSE >>),
         Args(<< >>, FALSE, FALSE, "closed", << TRUE >>),
         Args(<< 201 >>, FALSE, FALSE, Undefined, << TRUE >>),
         Args(<< >>, FALSE, FALSE, "done", << >>) }

Init ==
  /\ mode \in {"task_inbox", "cli_inbox", "my_tasks"}
  /\ config \in Configs
  /\ args \in ArgsOf(mode)
  /\ pc = "start"
  /\ requests = << >>
  /\ tasksPromise = Pending
  /\ tasksResponse = NoResponse
  /\ projectMap = << >>
  /\ promises = << >>
  /\ settled = << >>
  /\ personMap = << >>
  /\ taskCommentMap = << >>
  /\ tasksOutput = << >>
  /\ actionItems = << >>
  /\ stdout = << >>
  /\ stderr = << >>
  /\ result = NoResult

\* Mutant of userConfigured: the configuration check is skipped.
userConfiguredAlways(cfg) == TRUE

\* if (!config.PRODUCTIVE_USER_ID) the entry points stop before any request.
userConfigured(cfg) == ~Falsy(cfg.PRODUCTIVE_USER_ID)

\* The handler returns or throws: the invocation is over.
Finish(res) == pc' = "done" /\ result' = res

NotConfiguredText ==
  "User ID not configured. Please set PRODUCTIVE_USER_ID in your environment variables to use this feature."

\* ------------------------------------------------------------------------
\* task_inbox tool (src/src/tools/pages.ts)
\* ------------------------------------------------------------------------

\* taskInboxSchema: limit is optional, a number from 1 to 50. The issues zod
\* reports, as the messages the handler joins.
taskInboxSchemaIssues(a) ==
  IF a.limit = << >> THEN << >>
  ELSE IF a.limit[1] < 1 THEN << "Number must be greater than or equal to 1" >>
  ELSE IF a.limit[1] > 50 THEN << "Number must be less than or equal to 50" >>
  ELSE << >>

\* params.limit || 10
inboxLimit(a) == IF Truthy(a.limit) THEN a.limit[1] ELSE 10

\* The task-listing request of the inbox view.
inboxListTasks(cfg, limit) ==
  listTasks([NoTaskParams EXCEPT !.assignee_id = cfg.PRODUCTIVE_USER_ID,
                                 !.status = "open",
                                 !.limit = << limit >>,
                                 !.sort = "-last_activity_at",
                                 !.include = << "project" >>])

\* Mutant of noTasks: an empty list is treated like any other.
noTasksNever(response) == FALSE

\* !tasksResponse || !tasksResponse.data || tasksResponse.data.length === 0
noTasks(response) == Len(response.data) = 0

\* From the call to the first await: the configuration check, the parse of
\* the arguments, and the task-listing request.
taskInboxStart ==
  /\ mode = "task_inbox" /\ pc = "start"
  /\ IF ~userConfigured(config)
     THEN Finish(Content(NotConfiguredText)) /\ UNCHANGED requests
     ELSE IF taskInboxSchemaIssues(args) # << >>
     THEN /\ Finish(McpError("InvalidParams",
                      "Invalid parameters: " \o JoinWith(taskInboxSchemaIssues(args), ", ")))
          /\ UNCHANGED requests
     ELSE /\ requests' = Append(requests, inboxListTasks(config, inboxLimit(args)))
          /\ pc' = "awaitTasks"
          /\ UNCHANGED result
  /\ UNCHANGED << mode, config, args, tasksPromise, tasksResponse, projectMap, promises,
                  settled, personMap, taskCommentMap, tasksOutput, actionItems, stdout,
                  stderr >>

\* The task list arrives: a failure is rethrown as an McpError, an empty list
\* ends the view, otherwise the project lookup is built and one comment
\* request per task is issued.
taskInboxTasksSettle ==
  /\ mode = "task_inbox" /\ pc = "awaitTasks"
  /\ \E answer \in TaskListAnswers(requests[1]) :
       LET promise == makeRequest(answer) IN
       /\ tasksPromise' = promise
       /\ stderr' = stderr \o makeRequestLog(config, requests[1], answer)
       /\ IF promise.state = "rejected"
          THEN /\ Finish(McpError("InternalError", promise.reason))
               /\ UNCHANGED << requests, tasksResponse, projectMap, promises >>
          ELSE IF noTasks(promise.value)
          THEN /\ Finish(Content("No tasks in your inbox."))
               /\ tasksResponse' = promise.value
               /\ UNCHANGED << requests, projectMap, promises >>
          ELSE /\ tasksResponse' = promise.value
               /\ projectMap' = ProjectMapOf(promise.value)
               /\ requests' = requests \o FanOut(TaskIdsOf(promise.value))
               /\ promises' = [i \in DOMAIN promise.value.data |-> Pending]
               /\ pc' = "awaitComments"
               /\ UNCHANGED result
  /\ UNCHANGED << mode, config, args, settled, personMap, taskCommentMap,
                  tasksOutput, actionItems, stdout >>

\* Mutant of commentSettles: a comment request that fails is issued once more
\* and its promise left pending.
commentSettlesRetrying ==
  /\ pc = "awaitComments"
  /\ ~SomeRejected(promises)
  /\ \E i \in DOMAIN promises :
       /\ promises[i].state = "pending"
       /\ \E answer \in CommentAnswers :
            /\ stderr' = stderr \o makeRequestLog(config, requests[1 + i], answer)
            /\ IF answer \in Failures /\ Len(requests) = 1 + Len(promises)
               THEN /\ requests' = Append(requests, requests[1 + i])
                    /\ UNCHANGED << promises, settled >>
               ELSE /\ promises' = [promises EXCEPT ![i] = makeRequest(answer)]
                    /\ settled' = Append(settled, i)
                    /\ UNCHANGED requests
  /\ UNCHANGED << mode, config, args, pc, tasksPromise, tasksResponse, projectMap,
                  personMap, taskCommentMap, tasksOutput, actionItems, stdout, result >>

\* One comment request is answered and its promise settles. Once a promise is
\* rejected Promise.all is rejected and the handler's catch runs next.
commentSettles ==
  /\ pc = "awaitComments"
  /\ ~SomeRejected(promises)
  /\ \E i \in DOMAIN promises :
       /\ promises[i].state = "pending"
       /\ \E answer \in CommentAnswers :
            /\ promises' = [promises EXCEPT ![i] = makeRequest(answer)]
            /\ stderr' = stderr \o makeRequestLog(config, requests[1 + i], answer)
       /\ settled' = Append(settled, i)
  /\ UNCHANGED << mode, config, args, pc, requests, tasksPromise, tasksResponse, projectMap,
                  personMap, taskCommentMap, tasksOutput, actionItems, stdout, result >>

\* The handler resumes after await Promise.all(...) when every promise is fulfilled.
joinReady(ps) == AllFulfilled(ps)

\* The reason Promise.all rejects with: that of the first promise to reject.
rejectionOf(ps, order) ==
  ps[order[CHOOSE k \in DOMAIN order :
             /\ ps[order[k]].state = "rejected"
             /\ \A j \in DOMAIN order : ps[order[j]].state = "rejected" => k <= j]].reason

\* All comments are in: the lookups are built, the blocks and the suggestions
\* rendered, and the text returned.
taskInboxJoin ==
  /\ mode = "task_inbox" /\ pc = "awaitComments"
  /\ joinReady(promises)
  /\ LET commentResponses == PromiseAllValues(promises, settled)
         people == PersonMapOf(commentResponses)
         latest == TaskCommentMapOf(TaskIdsOf(tasksResponse), commentResponses)
         blocks == tasksOutputOf(tasksResponse.data, config, projectMap, latest, people)
         items == actionItemsOf(tasksResponse.data, Len(tasksResponse.data), latest, people, TRUE)
     IN /\ personMap' = people
        /\ taskCommentMap' = latest
        /\ tasksOutput' = blocks
        /\ actionItems' = items
        /\ Finish(Content(inboxHeader(tasksResponse) \o "\n\n" \o JoinWith(blocks, "\n\n")
                            \o actionItemsSection(items)))
  /\ UNCHANGED << mode, config, args, requests, tasksPromise, tasksResponse, projectMap, promises,
                  settled, stdout, stderr >>

\* Mutant of taskInboxCatch: a failed comment request degrades its task to one
\* without a comment and the view is returned all the same.
taskInboxCatchDegrading ==
  /\ mode = "task_inbox" /\ pc = "awaitComments"
  /\ SomeRejected(promises)
  /\ LET commentResponses ==
           [i \in DOMAIN promises |->
              IF promises[i].state = "fulfilled" THEN promises[i].value ELSE NoResponse]
         people == PersonMapOf(commentResponses)
         latest == TaskCommentMapOf(TaskIdsOf(tasksResponse), commentResponses)
         blocks == tasksOutputOf(tasksResponse.data, config, projectMap, latest, people)
         items == actionItemsOf(tasksResponse.data, Len(tasksResponse.data), latest, people, TRUE)
     IN /\ personMap' = people
        /\ taskCommentMap' = latest
        /\ tasksOutput' = blocks
        /\ actionItems' = items
        /\ Finish(Content(inboxHeader(tasksResponse) \o "\n\n" \o JoinWith(blocks, "\n\n")
                            \o actionItemsSection(items)))
  /\ UNCHANGED << mode, config, args, requests, tasksPromise, tasksResponse, projectMap, promises,
                  settled, stdout, stderr >>

\* A comment request failed: the catch block rethrows it as an McpError.
taskInboxCatch ==
  /\ mode = "task_inbox" /\ pc = "awaitComments"
  /\ SomeRejected(promises)
  /\ Finish(McpError("InternalError", rejectionOf(promises, settled)))
  /\ UNCHANGED << mode, config, args, requests, tasksPromise, tasksResponse, projectMap, promises,
                  settled, personMap, taskCommentMap, tasksOutput, actionItems,
                  stdout, stderr >>

\* ------------------------------------------------------------------------
\* Inbox command-line script (src/src/cli/inbox.ts)
\* ------------------------------------------------------------------------

\* limitIndex !== -1 && args[limitIndex + 1] ? parseInt(...) : 10
cliLimit(a) == IF a.limit # << >> THEN a.limit[1] ELSE 10

\* The lines console.log writes for the task at position index.
cliBlock(index, task, cfg, projects, latest, people, showFull) ==
  << blockHeader(index, task, cfg, projects),
     cliContentLine(task, latest, people, showFull),
     "" >>

RECURSIVE cliBlocksOf(_, _, _, _, _, _, _)
cliBlocksOf(tasks, n, cfg, projects, latest, people, showFull) ==
  IF n = 0 THEN << >>
  ELSE cliBlocksOf(tasks, n - 1, cfg, projects, latest, people, showFull)
         \o cliBlock(n, tasks[n], cfg, projects, latest, people, showFull)

cliStart ==
  /\ mode = "cli_inbox" /\ pc = "start"
  /\ IF ~userConfigured(config)
     THEN /\ stderr' = Append(stderr,
                 "Error: PRODUCTIVE_USER_ID not configured in environment variables.")
          /\ Finish(Exit("1"))
          /\ UNCHANGED requests
     ELSE /\ requests' = Append(requests, inboxListTasks(config, cliLimit(args)))
          /\ pc' = "awaitTasks"
          /\ UNCHANGED << result, stderr >>
  /\ UNCHANGED << mode, config, args, tasksPromise, tasksResponse, projectMap, promises,
                  settled, personMap, taskCommentMap, tasksOutput, actionItems, stdout >>

cliTasksSettle ==
  /\ mode = "cli_inbox" /\ pc = "awaitTasks"
  /\ \E answer \in TaskListAnswers(requests[1]) :
       LET promise == makeRequest(answer) IN
       /\ tasksPromise' = promise
       /\ IF promise.state = "rejected"
          THEN /\ stderr' = Append(stderr \o makeRequestLog(config, requests[1], answer),
                                   "Error: " \o promise.reason)
               /\ Finish(Exit("1"))
               /\ UNCHANGED << requests, tasksResponse, projectMap, promises, stdout >>
          ELSE IF noTasks(promise.value)
          THEN /\ stdout' = Append(stdout, "No tasks in your inbox.")
               /\ Finish(Exit("0"))
               /\ tasksResponse' = promise.value
               /\ UNCHANGED << requests, projectMap, promises, stderr >>
          ELSE /\ tasksResponse' = promise.value
               /\ projectMap' = ProjectMapOf(promise.value)
               /\ requests' = requests \o FanOut(TaskIdsOf(promise.value))
               /\ promises' = [i \in DOMAIN promise.value.data |-> Pending]
               /\ pc' = "awaitComments"
               /\ UNCHANGED << result, stdout, stderr >>
  /\ UNCHANGED << mode, config, args, settled, personMap, taskCommentMap,
                  tasksOutput, actionItems >>

cliJoin ==
  /\ mode = "cli_inbox" /\ pc = "awaitComments"
  /\ joinReady(promises)
  /\ LET commentResponses == PromiseAllValues(promises, settled)
         people == PersonMapOf(commentResponses)
         latest == TaskCommentMapOf(TaskIdsOf(tasksResponse), commentResponses)
         n == Len(tasksResponse.data)
         items == IF args.showActions
                  THEN actionItemsOf(tasksResponse.data, n, latest, people, FALSE)
                  ELSE << >>
     IN /\ personMap' = people
        /\ taskCommentMap' = latest
        /\ actionItems' = items
        /\ stdout' = << inboxHeader(tasksResponse) \o "\n" >>
                       \o cliBlocksOf(tasksResponse.data, n, config, projectMap,
                                      latest, people, args.showFull)
                       \o (IF args.showActions /\ Len(items) > 0
                           THEN << "Suggested Actions:" >> \o items ELSE << >>)
        /\ Finish(Exit("0"))
  /\ UNCHANGED << mode, config, args, requests, tasksPromise, tasksResponse, projectMap, promises,
                  settled, tasksOutput, stderr >>

cliCatch ==
  /\ mode = "cli_inbox" /\ pc = "awaitComments"
  /\ SomeRejected(promises)
  /\ stderr' = Append(stderr, "Error: " \o rejectionOf(promises, settled))
  /\ Finish(Exit("1"))
  /\ UNCHANGED << mode, config, args, requests, tasksPromise, tasksResponse, projectMap, promises,
                  settled, personMap, taskCommentMap, tasksOutput, actionItems, stdout >>

\* ------------------------------------------------------------------------
\* my_tasks tool (src/src/tools/my-tasks.ts)
\* ------------------------------------------------------------------------

\* myTasksSchema: status is 'open' or 'closed', limit a number from 1 to 200.
myTasksSchemaIssues(a) ==
  (IF a.status \notin {Undefined, "open", "closed"}
   THEN << "Invalid enum value. Expected 'open' | 'closed', received '" \o a.status \o "'" >>
   ELSE << >>)
  \o (IF a.limit = << >> THEN << >>
      ELSE IF a.limit[1] < 1 THEN << "Number must be greater than or equal to 1" >>
      ELSE IF a.limit[1] > 200 THEN << "Number must be less than or equal to 200" >>
      ELSE << >>)

hasParent(task) == ~Falsy(task.relationships.parent_task)

\* Mutant of filteredTasksOf: top_level_only is ignored.
filteredTasksOfKeepingSubtasks(tasks, a) ==
  SelectSeq(tasks, LAMBDA task : "attributes" \in DOMAIN task)

\* filteredTasks: the tasks that have attributes and, with top_level_only,
\* no parent task.
filteredTasksOf(tasks, a) ==
  LET withAttributes == SelectSeq(tasks, LAMBDA task : "attributes" \in DOMAIN task)
  IN IF a.top_level_only = << TRUE >>
     THEN SelectSeq(withAttributes, LAMBDA task : ~hasParent(task))
     ELSE withAttributes

\* The status icon of a task: a check mark when closed, a circle otherwise
\* (written in ASCII).
statusIcon(task) == IF task.attributes.status = 2 THEN "[x]" ELSE "( )"

statusText(task) ==
  IF task.attributes.status = 1 THEN "open"
  ELSE IF task.attributes.status = 2 THEN "closed"
  ELSE "status " \o ToString(task.attributes.status)

\* The text rendered for one task of my_tasks.
myTaskText(task, taskTitleMap) ==
  LET parentTaskId == task.relationships.parent_task
      taskType == IF hasParent(task)
                  THEN "Subtask of: " \o OrElse(Get(taskTitleMap, parentTaskId), parentTaskId)
                  ELSE "Top-level task"
  IN statusIcon(task) \o " " \o task.attributes.title \o " (ID: " \o task.id \o ")"
       \o "\n  Status: " \o statusText(task)
       \o "\n  Type: " \o taskType
       \o "\n  " \o (IF Falsy(task.attributes.due_date) THEN "No due date"
                     ELSE "Due: " \o task.attributes.due_date)
       \o "\n  " \o (IF Falsy(task.relationships.project) THEN ""
                     ELSE "Project ID: " \o task.relationships.project)
       \o "\n  " \o (IF Falsy(task.attributes.description) THEN ""
                     ELSE "Description: " \o task.attributes.description)

\* taskTitleMap: id -> title of the tasks among the included entities.
taskTitleMapOf(response) ==
  LET parents == OfType(response.included, "tasks")
  IN [id \in { parents[i].id : i \in DOMAIN parents } |->
        parents[LastWith(parents, id)].attributes.title]

\* The summary my_tasks returns for a non-empty filtered list.
myTasksSummary(response, a) ==
  LET shown == filteredTasksOf(response.data, a)
      titles == taskTitleMapOf(response)
  IN "You have " \o ToString(Len(shown)) \o " task" \o (IF Len(shown) # 1 THEN "s" ELSE "")
       \o " assigned to you"
       \o (IF a.top_level_only = << TRUE >> THEN " (top-level only)" ELSE "")
       \o (IF Truthy(response.meta.total_count)
           THEN " (from " \o ToString(response.meta.total_count[1]) \o " total)" ELSE "")
       \o ":\n\n"
       \o JoinWith([i \in DOMAIN shown |-> myTaskText(shown[i], titles)], "\n\n")

myTasksStart ==
  /\ mode = "my_tasks" /\ pc = "start"
  /\ IF ~userConfigured(config)
     THEN Finish(Content(NotConfiguredText)) /\ UNCHANGED requests
     ELSE IF myTasksSchemaIssues(args) # << >>
     THEN /\ Finish(McpError("InvalidParams",
                      "Invalid parameters: " \o JoinWith(myTasksSchemaIssues(args), ", ")))
          /\ UNCHANGED requests
     ELSE /\ requests' = Append(requests,
               listTasks([NoTaskParams EXCEPT !.assignee_id = config.PRODUCTIVE_USER_ID,
                                              !.status = args.status,
                                              !.limit = args.limit,
                                              !.include = << "parent_task" >>]))
          /\ pc' = "awaitTasks"
          /\ UNCHANGED result
  /\ UNCHANGED << mode, config, args, tasksPromise, tasksResponse, projectMap, promises,
                  settled, personMap, taskCommentMap, tasksOutput, actionItems, stdout,
                  stderr >>

myTasksSettle ==
  /\ mode = "my_tasks" /\ pc = "awaitTasks"
  /\ \E answer \in TaskListAnswers(requests[1]) :
       LET promise == makeRequest(answer) IN
       /\ tasksPromise' = promise
       /\ stderr' = stderr \o makeRequestLog(config, requests[1], answer)
       /\ IF promise.state = "rejected"
          THEN /\ Finish(McpError("InternalError", promise.reason))
               /\ UNCHANGED tasksResponse
          ELSE /\ tasksResponse' = promise.value
               /\ IF noTasks(promise.value)
                  THEN Finish(Content("You have no tasks assigned to you."))
                  ELSE IF Len(filteredTasksOf(promise.value.data, args)) = 0
                  THEN Finish(Content(
                         IF args.top_level_only = << TRUE >>
                         THEN "You have no top-level tasks assigned to you (all your tasks are subtasks)."
                         ELSE "You have no tasks assigned to you."))
                  ELSE Finish(Content(myTasksSummary(promise.value, args)))
  /\ UNCHANGED << mode, config, args, requests, projectMap, promises, settled,
                  personMap, taskCommentMap, tasksOutput, actionItems, stdout >>

Next ==
  \/ taskInboxStart
  \/ taskInboxTasksSettle
  \/ commentSettles
  \/ taskInboxJoin
  \/ taskInboxCatch
  \/ cliStart
  \/ cliTasksSettle
  \/ cliJoin
  \/ cliCatch
  \/ myTasksStart
  \/ myTasksSettle

Spec == Init /\ [][Next]_vars

\* ------------------------------------------------------------------------
\* The suggestion engine on its own: one task, with or without a latest
\* comment, drawn from enumerated titles and comment bodies.
\* ------------------------------------------------------------------------

SuggestTask(title) ==
  Task("201", title, Undefined, NoTimestamp, Now, Undefined, Undefined, 1, Undefined)

SuggestInit ==
  /\ mode \in {"task_inbox", "cli_inbox"}
  /\ config = Config("u7")
  /\ args = Args(<< >>, FALSE, TRUE, Undefined, << >>)
  /\ pc = "suggest"
  /\ requests = << >>
  /\ tasksPromise = Pending
  /\ \E title \in SuggestTitles :
       tasksResponse = [NoResponse EXCEPT !.data = << SuggestTask(title) >>]
  /\ projectMap = << >>
  /\ promises = << >>
  /\ settled = << >>
  /\ personMap = [id \in {"p1"} |-> "Ann Lee"]
  /\ \/ taskCommentMap = << >>
     \/ \E body \in SuggestBodies, creator \in { "p1", "p2", Undefined } :
          taskCommentMap = [id \in {"201"} |-> Comment("c9", body, creator)]
  /\ tasksOutput = << >>
  /\ actionItems = << >>
  /\ stdout = << >>
  /\ stderr = << >>
  /\ result = NoResult

\* The loop that collects the suggestions, applied to the one task.
suggest ==
  /\ pc = "suggest"
  /\ actionItems' = actionItemsOf(tasksResponse.data, Len(tasksResponse.data),
                                  taskCommentMap, personMap, mode = "task_inbox")
  /\ pc' = "done"
  /\ UNCHANGED << mode, config, args, requests, tasksPromise, tasksResponse, projectMap,
                  promises, settled, personMap, taskCommentMap, tasksOutput, stdout,
                  stderr, result >>

SuggestNext == suggest

SuggestSpec == SuggestInit /\ [][SuggestNext]_vars

\* ------------------------------------------------------------------------
\* The text functions on their own: one call of a function, its arguments
\* in args and the value it returns in result.
\* ------------------------------------------------------------------------

\* The state before the call of the function fn with one of the arguments.
CallInit(fn, arguments) ==
  /\ mode = fn
  /\ config = Config("u7")
  /\ args \in arguments
  /\ pc = "call"
  /\ requests = << >>
  /\ tasksPromise = Pending
  /\ tasksResponse = NoResponse
  /\ projectMap = << >>
  /\ promises = << >>
  /\ settled = << >>
  /\ personMap = << >>
  /\ taskCommentMap = << >>
  /\ tasksOutput = << >>
  /\ actionItems = << >>
  /\ stdout = << >>
  /\ stderr = << >>
  /\ result = NoResult

\* The function returns the text.
Return(text) ==
  /\ pc = "call"
  /\ Finish(Content(text))
  /\ UNCHANGED << mode, config, args, requests, tasksPromise, tasksResponse, projectMap,
                  promises, settled, personMap, taskCommentMap, tasksOutput, actionItems,
                  stdout, stderr >>

\* Texts handed to truncate: the prefixes of texts with and without dots.
TruncateTexts ==
  { Slice(base, 1, k) : base \in { "abcdefghijklmnop", "ab...cd...ef...gh", "................" },
                        k \in 0..MaxTextLength }

TruncateInit ==
  CallInit("truncate", { [text |-> t, maxLength |-> n] : t \in TruncateTexts, n \in 0..MaxLength })

truncateCall == mode = "truncate" /\ Return(truncate(args.text, args.maxLength))

TruncateNext == truncateCall

TruncateSpec == TruncateInit /\ [][TruncateNext]_vars

\* Instants up to MaxDays days before Now: on the day boundary, an hour
\* after it, and an hour before the next.
PastInstants == { Now - (d * HoursPerDay + h) : d \in 0..MaxDays, h \in {0, 1, HoursPerDay - 1} }

\* The timestamps of a task: last_activity_at may be absent.
TaskTimestamps ==
  { [last_activity_at |-> a, updated_at |-> u] :
      a \in PastInstants, u \in { Now - 3 * HoursPerDay, Now - 40 * HoursPerDay } }
  \cup { [last_activity_at |-> NoTimestamp, updated_at |-> u] : u \in PastInstants }

RelativeTimeInit ==
  CallInit("formatRelativeTime", { [attributes |-> t] : t \in TaskTimestamps })

\* formatRelativeTime(task.attributes.last_activity_at || task.attributes.updated_at)
formatRelativeTimeCall ==
  mode = "formatRelativeTime" /\ Return(formatRelativeTime(lastActivityOf(args), Now))

RelativeTimeNext == formatRelativeTimeCall

RelativeTimeSpec == RelativeTimeInit /\ [][RelativeTimeNext]_vars

\* Texts handed to stripHtml: up to MaxFragments fragments in a row.
Fragments ==
  { "x", " ", "<b>", "</b>", "<", ">", "&", "amp;", "&amp;", "&lt;", "&gt;", "&quot;", "&nbsp;" }

RECURSIVE FragmentTexts(_)
FragmentTexts(n) ==
  IF n = 0 THEN { "" }
  ELSE FragmentTexts(n - 1) \cup { t \o f : t \in FragmentTexts(n - 1), f \in Fragments }

StripHtmlInit ==
  CallInit("stripHtml", { [html |-> t, pass |-> 1] : t \in FragmentTexts(MaxFragments) })

stripHtmlCall == mode = "stripHtml" /\ Return(stripHtml(args.html))

\* The text returned is handed to stripHtml once more.
stripHtmlReapply ==
  /\ mode = "stripHtml" /\ pc = "done" /\ args.pass = 1
  /\ args' = [html |-> result.text, pass |-> 2]
  /\ pc' = "call"
  /\ result' = NoResult
  /\ UNCHANGED << mode, config, requests, tasksPromise, tasksResponse, projectMap,
                  promises, settled, personMap, taskCommentMap, tasksOutput, actionItems,
                  stdout, stderr >>

StripHtmlNext == stripHtmlCall \/ stripHtmlReapply

StripHtmlSpec == StripHtmlInit /\ [][StripHtmlNext]_vars

\* ------------------------------------------------------------------------
\* Two task_inbox calls in flight in one server process (src/src/server.ts)
\* ------------------------------------------------------------------------

\* The CallTool handler is async: a second call may start while the first is
\* suspended at an await. In this specification every variable of the handler
\* is a function of the invocation; config and the console are the process's.
Invocations == {"a", "b"}

\* Mutant of lookupScope: the lookups are module-level, one instance for all.
lookupScopeShared(invocation) == "a"

\* const projectMap = new Map() (and personMap, taskCommentMap) inside the
\* handler: every invocation constructs its own instances.
lookupScope(invocation) == invocation

ConcurrentArgs == { Args(l, FALSE, FALSE, Undefined, << >>) : l \in { << >>, << 1 >> } }

TaskWith(id) == CHOOSE t \in TaskPool : t.id = id

\* Answers to the task-listing request that differ in the projects inlined.
ConcurrentTaskListAnswers(request) ==
  { HttpError(500, Undefined) } \cup
  { HttpOk([data |-> list, included |-> included, meta |-> [total_count |-> << >>]]) :
      list \in { l \in { << >>, << TaskWith("101") >>, << TaskWith("102"), TaskWith("101") >> } :
                   Len(l) <= PageSize(request) },
      included \in { << Project("pr1", "Website") >>,
                     << Project("pr1", "Intranet"), Project("pr2", "Payments") >> } }

ConcurrentCommentAnswers ==
  { FetchThrows("fetch failed") } \cup
  { HttpOk(page) : page \in { p \in CommentPages : p.data = << >> \/ p.data[1].id \in {"c2", "c3"} } }

ConcurrentInit ==
  /\ mode = "task_inbox"
  /\ config = Config("u7")
  /\ args \in [Invocations -> ConcurrentArgs]
  /\ pc = [i \in Invocations |-> "start"]
  /\ requests = [i \in Invocations |-> << >>]
  /\ tasksPromise = [i \in Invocations |-> Pending]
  /\ tasksResponse = [i \in Invocations |-> NoResponse]
  /\ projectMap = [i \in Invocations |-> << >>]
  /\ promises = [i \in Invocations |-> << >>]
  /\ settled = [i \in Invocations |-> << >>]
  /\ personMap = [i \in Invocations |-> << >>]
  /\ taskCommentMap = [i \in Invocations |-> << >>]
  /\ tasksOutput = [i \in Invocations |-> << >>]
  /\ actionItems = [i \in Invocations |-> << >>]
  /\ stdout = << >>
  /\ stderr = << >>
  /\ result = [i \in Invocations |-> NoResult]

\* Invocation i returns or throws.
FinishOf(i, res) ==
  /\ pc' = [pc EXCEPT ![i] = "done"]
  /\ result' = [result EXCEPT ![i] = res]

\* taskInboxStart of invocation i (the configuration is set here).
concurrentStart(i) ==
  /\ pc[i] = "start"
  /\ IF taskInboxSchemaIssues(args[i]) # << >>
     THEN /\ FinishOf(i, McpError("InvalidParams",
                       "Invalid parameters: " \o JoinWith(taskInboxSchemaIssues(args[i]), ", ")))
          /\ UNCHANGED requests
     ELSE /\ requests' = [requests EXCEPT ![i] = Append(@, inboxListTasks(config, inboxLimit(args[i])))]
          /\ pc' = [pc EXCEPT ![i] = "awaitTasks"]
          /\ UNCHANGED result
  /\ UNCHANGED << mode, config, args, tasksPromise, tasksResponse, projectMap, promises,
                  settled, personMap, taskCommentMap, tasksOutput, actionItems, stdout,
                  stderr >>

\* taskInboxTasksSettle of invocation i.
concurrentTasksSettle(i) ==
  /\ pc[i] = "awaitTasks"
  /\ \E answer \in ConcurrentTaskListAnswers(requests[i][1]) :
       LET promise == makeRequest(answer) IN
       /\ tasksPromise' = [tasksPromise EXCEPT ![i] = promise]
       /\ stderr' = stderr \o makeRequestLog(config, requests[i][1], answer)
       /\ IF promise.state = "rejected"
          THEN /\ FinishOf(i, McpError("InternalError", promise.reason))
               /\ UNCHANGED << requests, tasksResponse, projectMap, promises >>
          ELSE IF noTasks(promise.value)
          THEN /\ FinishOf(i, Content("No tasks in your inbox."))
               /\ tasksResponse' = [tasksResponse EXCEPT ![i] = promise.value]
               /\ UNCHANGED << requests, projectMap, promises >>
          ELSE /\ tasksResponse' = [tasksResponse EXCEPT ![i] = promise.value]
               /\ projectMap' = [projectMap EXCEPT ![lookupScope(i)] = ProjectMapOf(promise.value)]
               /\ requests' = [requests EXCEPT ![i] = @ \o FanOut(TaskIdsOf(promise.value))]
               /\ promises' = [promises EXCEPT ![i] = [k \in DOMAIN promise.value.data |-> Pending]]
               /\ pc' = [pc EXCEPT ![i] = "awaitComments"]
               /\ UNCHANGED result
  /\ UNCHANGED << mode, config, args, settled, personMap, taskCommentMap,
                  tasksOutput, actionItems, stdout >>

\* commentSettles of invocation i.
concurrentCommentSettles(i) ==
  /\ pc[i] = "awaitComments"
  /\ ~SomeRejected(promises[i])
  /\ \E k \in DOMAIN promises[i] :
       /\ promises[i][k].state = "pending"
       /\ \E answer \in ConcurrentCommentAnswers :
            /\ promises' = [promises EXCEPT ![i][k] = makeRequest(answer)]
            /\ stderr' = stderr \o makeRequestLog(config, requests[i][1 + k], answer)
       /\ settled' = [settled EXCEPT ![i] = Append(@, k)]
  /\ UNCHANGED << mode, config, args, pc, requests, tasksPromise, tasksResponse, projectMap,
                  personMap, taskCommentMap, tasksOutput, actionItems, stdout, result >>

\* taskInboxJoin of invocation i: the lookups written and read are those of
\* the invocation's scope.
concurrentJoin(i) ==
  /\ pc[i] = "awaitComments"
  /\ joinReady(promises[i])
  /\ LET scope == lookupScope(i)
         commentResponses == PromiseAllValues(promises[i], settled[i])
         people == [personMap EXCEPT ![scope] = PersonMapOf(commentResponses)]
         latest == [taskCommentMap EXCEPT
                      ![scope] = TaskCommentMapOf(TaskIdsOf(tasksResponse[i]), commentResponses)]
         blocks == tasksOutputOf(tasksResponse[i].data, config, projectMap[scope],
                                 latest[scope], people[scope])
         items == actionItemsOf(tasksResponse[i].data, Len(tasksResponse[i].data),
                                latest[scope], people[scope], TRUE)
     IN /\ personMap' = people
        /\ taskCommentMap' = latest
        /\ tasksOutput' = [tasksOutput EXCEPT ![i] = blocks]
        /\ actionItems' = [actionItems EXCEPT ![i] = items]
        /\ FinishOf(i, Content(inboxHeader(tasksResponse[i]) \o "\n\n" \o JoinWith(blocks, "\n\n")
                                 \o actionItemsSection(items)))
  /\ UNCHANGED << mode, config, args, requests, tasksPromise, tasksResponse, projectMap, promises,
                  settled, stdout, stderr >>

\* taskInboxCatch of invocation i.
concurrentCatch(i) ==
  /\ pc[i] = "awaitComments"
  /\ SomeRejected(promises[i])
  /\ FinishOf(i, McpError("InternalError", rejectionOf(promises[i], settled[i])))
  /\ UNCHANGED << mode, config, args, requests, tasksPromise, tasksResponse, projectMap, promises,
                  settled, personMap, taskCommentMap, tasksOutput, actionItems,
                  stdout, stderr >>

\* One step of the event loop: one of the two handlers runs to its next await.
ConcurrentNext ==
  \/ \E i \in Invocations : concurrentStart(i)
  \/ \E i \in Invocations : concurrentTasksSettle(i)
  \/ \E i \in Invocations : concurrentCommentSettles(i)
  \/ \E i \in Invocations : concurrentJoin(i)
  \/ \E i \in Invocations : concurrentCatch(i)

ConcurrentSpec == ConcurrentInit /\ [][ConcurrentNext]_vars

\* ------------------------------------------------------------------------
\* reposition_task tool (src/src/tools/task-reposition.ts)
\* ------------------------------------------------------------------------

MaxPlacement == 2

\* What repositionTask reads of a task: its id, its optional placement and
\* the id of its task list, if the response carries one.
RepositionTask(id, placement, taskList) ==
  [id |-> id, attributes |-> [placement |-> placement],
   relationships |-> [task_list |-> taskList]]

\* The task of the call as the listing shows it, and the variants of the others.
RepositionTaskPool ==
  { RepositionTask("1", << 1 >>, "L1") } \cup
  { RepositionTask(id, placement, list) :
      id \in {"2", "3"},
      placement \in { << >> } \cup { << p >> : p \in 1..MaxPlacement },
      list \in {Undefined, "L1", "L2"} }

\* The listings the service may answer with: distinct tasks in any order.
RepositionListings ==
  { list \in UNION { [1..k -> RepositionTaskPool] : k \in 0..3 } :
      \A i, j \in DOMAIN list : i # j => list[i].id # list[j].id }

\* taskRepositionSchema: taskId, and optionally the two anchors and the two flags.
RepositionArgs ==
  { [taskId |-> id, move_before_id |-> before, move_after_id |-> after,
     moveToTop |-> top, moveToBottom |-> bottom] :
      id \in {"1"}, before \in {Undefined, "3"}, after \in {Undefined, "2"},
      top \in BOOLEAN, bottom \in BOOLEAN }
  \cup { [taskId |-> "", move_before_id |-> Undefined, move_after_id |-> "2",
          moveToTop |-> FALSE, moveToBottom |-> FALSE] }

\* getTask: GET tasks/{id}
getTask(taskId) == [method |-> "GET", path |-> "tasks/" \o taskId, query |-> << >>]

\* The client's repositionTask: PATCH tasks/{id}/reposition with the attributes.
repositionRequest(taskId, attributes) ==
  [method |-> "PATCH", path |-> "tasks/" \o taskId \o "/reposition", query |-> << >>,
   body |-> [data |-> [type |-> "tasks", attributes |-> attributes]]]

\* a.attributes.placement || 0
placementOf(task) ==
  IF Truthy(task.attributes.placement) THEN task.attributes.placement[1] ELSE 0

\* The tasks the anchor is chosen among: in the task's list when its id is
\* known, all of the listing otherwise, the task itself left out.
otherTasks(listing, taskId, taskListId) ==
  IF Falsy(taskListId)
  THEN SelectSeq(listing, LAMBDA task : task.id # taskId)
  ELSE SelectSeq(listing,
                 LAMBDA task : task.relationships.task_list = taskListId /\ task.id # taskId)

\* Mutant of sortByPlacement: the tasks are left in the order of the listing.
sortByPlacementUnsorted(tasks, direction) == tasks

\* [...tasks].sort((a, b) => direction * (placementA - placementB)): the sort
\* is stable, tasks that compare equal keep their order.
RECURSIVE sortByPlacement(_, _)
sortByPlacement(tasks, direction) ==
  IF Len(tasks) <= 1 THEN tasks
  ELSE LET front == sortByPlacement(SubSeq(tasks, 1, Len(tasks) - 1), direction)
           last == tasks[Len(tasks)]
           before == { i \in DOMAIN front :
                         direction * (placementOf(front[i]) - placementOf(last)) <= 0 }
           k == Cardinality(before)
       IN SubSeq(front, 1, k) \o << last >> \o SubSeq(front, k + 1, Len(front))

\* The attributes repositionTask passes to the client.
NoAttributes == [move_before_id |-> Undefined, move_after_id |-> Undefined]

\* Mutant of repositionAttributes: the move to the bottom is tried first.
repositionAttributesBottomFirst(a, taskListId, listing) ==
  LET others == otherTasks(listing, a.taskId, taskListId)
  IN IF a.moveToBottom /\ Len(others) > 0
     THEN [NoAttributes EXCEPT !.move_after_id = sortByPlacement(others, 0 - 1)[1].id]
     ELSE IF a.moveToTop /\ Len(others) > 0
     THEN [NoAttributes EXCEPT !.move_before_id = sortByPlacement(others, 1)[1].id]
     ELSE [move_before_id |-> IF Falsy(a.move_before_id) THEN Undefined ELSE a.move_before_id,
           move_after_id |-> IF Falsy(a.move_after_id) THEN Undefined ELSE a.move_after_id]

repositionAttributes(a, taskListId, listing) ==
  LET others == otherTasks(listing, a.taskId, taskListId)
  IN IF a.moveToTop /\ Len(others) > 0
     THEN [NoAttributes EXCEPT !.move_before_id = sortByPlacement(others, 1)[1].id]
     ELSE IF a.moveToBottom /\ Len(others) > 0
     THEN [NoAttributes EXCEPT !.move_after_id = sortByPlacement(others, 0 - 1)[1].id]
     ELSE [move_before_id |-> IF Falsy(a.move_before_id) THEN Undefined ELSE a.move_before_id,
           move_after_id |-> IF Falsy(a.move_after_id) THEN Undefined ELSE a.move_after_id]

\* The last resort of repositionTask: neither an anchor found nor one given.
lastResort(a, taskListId, listing) ==
  repositionAttributes(a, taskListId, listing) = NoAttributes

\* The answers of the service to the PATCH.
RepositionAnswers ==
  { [status |-> 204, statusText |-> "No Content", body |-> << >>],
    [status |-> 200, statusText |-> "OK",
     body |-> [data |-> [id |-> "1", attributes |-> [title |-> Undefined]]]],
    [status |-> 404, statusText |-> "Not Found", body |-> << >>],
    [status |-> 500, statusText |-> "Internal Server Error", body |-> << >>] }

\* The client's repositionTask on the answer: a success object for 204, the
\* parsed body for another success, an Error otherwise.
repositionResult(taskId, answer) ==
  IF answer.status = 404
  THEN Rejected("Task " \o taskId \o " not found or cannot be repositioned.")
  ELSE IF answer.status >= 300
  THEN Rejected("Reposition failed with status " \o ToString(answer.status) \o ": "
                  \o answer.statusText)
  ELSE IF answer.status = 204
  THEN Fulfilled([success |-> TRUE, data |-> << >>])
  ELSE Fulfilled([success |-> FALSE, data |-> answer.body.data])

\* The text taskRepositionTool returns for a result of the client.
repositionText(a, value) ==
  IF value.success
  THEN "Task " \o a.taskId \o " repositioned successfully.\nThe task has been moved "
         \o (IF a.moveToTop THEN "to the top of the list"
             ELSE IF a.moveToBottom THEN "to the bottom of the list"
             ELSE IF ~Falsy(a.move_before_id) THEN "before task " \o a.move_before_id
             ELSE IF ~Falsy(a.move_after_id) THEN "after task " \o a.move_after_id
             ELSE "to a new position") \o "."
  ELSE "Task " \o value.data.id \o " repositioned successfully.\nTitle: "
         \o OrElse(value.data.attributes.title, "Unknown")
         \o "\nPosition updated according to the requested parameters."

RepositionInit ==
  /\ mode = "reposition_task"
  /\ config = Config("u7")
  /\ args \in RepositionArgs
  /\ pc = "start"
  /\ requests = << >>
  /\ tasksPromise = Pending
  /\ tasksResponse = NoResponse
  /\ projectMap = << >>
  /\ promises = << >>
  /\ settled = << >>
  /\ personMap = << >>
  /\ taskCommentMap = << >>
  /\ tasksOutput = << >>
  /\ actionItems = << >>
  /\ stdout = << >>
  /\ stderr = << >>
  /\ result = NoResult

\* The server's case 'reposition_task': a call without taskId is refused,
\* otherwise repositionTask asks for the task.
repositionStart ==
  /\ mode = "reposition_task" /\ pc = "start"
  /\ IF Falsy(args.taskId)
     THEN /\ Finish(Thrown("taskId is required for task repositioning"))
          /\ UNCHANGED requests
     ELSE /\ requests' = << getTask(args.taskId) >>
          /\ pc' = "awaitTask"
          /\ UNCHANGED result
  /\ UNCHANGED << mode, config, args, tasksPromise, tasksResponse, projectMap, promises,
                  settled, personMap, taskCommentMap, tasksOutput, actionItems, stdout,
                  stderr >>

\* The id of the task list in the answer to getTask.
taskListIdOf(currentTask) == currentTask.data.relationships.task_list

\* The task arrives: with or without the id of its list, the first 100 tasks
\* are asked for.
repositionTaskSettles ==
  /\ mode = "reposition_task" /\ pc = "awaitTask"
  /\ \E answer \in Failures \cup
                     { HttpOk([data |-> RepositionTask("1", << 1 >>, list)]) :
                         list \in {Undefined, "L1"} } :
       LET promise == makeRequest(answer) IN
       /\ promises' = << promise >>
       /\ IF promise.state = "rejected"
          THEN /\ Finish(Content("Error repositioning task: " \o promise.reason))
               /\ stderr' = stderr \o makeRequestLog(config, requests[1], answer)
                              \o << "Error in taskRepositionTool: Error: " \o promise.reason >>
               /\ UNCHANGED requests
          ELSE /\ requests' = Append(requests, listTasks([NoTaskParams EXCEPT !.limit = << 100 >>]))
               /\ stderr' = stderr \o (IF Falsy(taskListIdOf(promise.value))
                                       THEN << "Task list ID not found for task " \o args.taskId >>
                                       ELSE << >>)
               /\ pc' = "awaitTasks"
               /\ UNCHANGED result
  /\ UNCHANGED << mode, config, args, tasksPromise, tasksResponse, projectMap, settled,
                  personMap, taskCommentMap, tasksOutput, actionItems, stdout >>

\* The listing arrives: the anchor is chosen and the PATCH sent.
repositionListSettles ==
  /\ mode = "reposition_task" /\ pc = "awaitTasks"
  /\ \E answer \in Failures \cup
                     { HttpOk([data |-> listing, included |-> << >>,
                               meta |-> [total_count |-> << >>]]) :
                         listing \in RepositionListings } :
       LET promise == makeRequest(answer)
           taskListId == taskListIdOf(promises[1].value)
       IN
       /\ tasksPromise' = promise
       /\ IF promise.state = "rejected"
          THEN /\ Finish(Content("Error repositioning task: " \o promise.reason))
               /\ stderr' = stderr \o makeRequestLog(config, requests[2], answer)
                              \o << "Error in taskRepositionTool: Error: " \o promise.reason >>
               /\ UNCHANGED << requests, tasksResponse >>
          ELSE /\ tasksResponse' = promise.value
               /\ requests' =
                    Append(requests,
                           repositionRequest(args.taskId,
                             repositionAttributes(args, taskListId, promise.value.data)))
               /\ stderr' = stderr \o (IF lastResort(args, taskListId, promise.value.data)
                                       THEN << "Using default repositioning with empty attributes" >>
                                       ELSE << >>)
               /\ pc' = "awaitReposition"
               /\ UNCHANGED result
  /\ UNCHANGED << mode, config, args, projectMap, promises, settled, personMap,
                  taskCommentMap, tasksOutput, actionItems, stdout >>

\* Mutant of repositionSettles: the error of a failed PATCH is thrown on to
\* the caller.
repositionSettlesRethrowing ==
  /\ mode = "reposition_task" /\ pc = "awaitReposition"
  /\ \E answer \in RepositionAnswers :
       LET promise == repositionResult(args.taskId, answer) IN
       /\ promises' = Append(promises, promise)
       /\ IF promise.state = "rejected"
          THEN /\ Finish(Thrown(promise.reason))
               /\ stderr' = Append(stderr, "Error repositioning task: Error: " \o promise.reason)
          ELSE /\ Finish(Content(repositionText(args, promise.value)))
               /\ UNCHANGED stderr
  /\ UNCHANGED << mode, config, args, requests, tasksPromise, tasksResponse, projectMap, settled,
                  personMap, taskCommentMap, tasksOutput, actionItems, stdout >>

\* The PATCH is answered: the tool returns the text of the success or of the error.
repositionSettles ==
  /\ mode = "reposition_task" /\ pc = "awaitReposition"
  /\ \E answer \in RepositionAnswers :
       LET promise == repositionResult(args.taskId, answer) IN
       /\ promises' = Append(promises, promise)
       /\ IF promise.state = "rejected"
          THEN /\ Finish(Content("Error repositioning task: " \o promise.reason))
               /\ stderr' = stderr \o << "Error repositioning task: Error: " \o promise.reason,
                                         "Error in taskRepositionTool: Error: " \o promise.reason >>
          ELSE /\ Finish(Content(repositionText(args, promise.value)))
               /\ UNCHANGED stderr
  /\ UNCHANGED << mode, config, args, requests, tasksPromise, tasksResponse, projectMap, settled,
                  personMap, taskCommentMap, tasksOutput, actionItems, stdout >>

RepositionNext ==
  \/ repositionStart
  \/ repositionTaskSettles
  \/ repositionListSettles
  \/ repositionSettles

RepositionSpec == RepositionInit /\ [][RepositionNext]_vars

\* ------------------------------------------------------------------------
\* update_page tool (src/src/tools/my-tasks.ts)
\* ------------------------------------------------------------------------

MaxVersion == 2

\* updatePageSchema: page_id, and optionally title and body (<< >> when
\* absent, << text >> when given, the empty text included).
UpdatePageArgs ==
  { [page_id |-> "7", title |-> title, body |-> body] :
      title \in { << >>, << "" >>, << "Plan" >> },
      body \in { << >>, << "" >>, << "one\n \ntwo" >> } }
  \cup { [page_id |-> "", title |-> << "Plan" >>, body |-> << >>] }

\* The messages of the issues zod reports for the arguments.
updatePageSchemaIssues(a) ==
  (IF Len(a.page_id) < 1 THEN << "Page ID is required" >> ELSE << >>)
    \o (IF a.title = << >> /\ a.body = << >>
        THEN << "At least one of title or body must be provided" >> ELSE << >>)

\* text.split('\n')
RECURSIVE SplitLines(_)
SplitLines(text) ==
  LET at == IndexFrom(text, "\n", 1)
  IN IF at = 0 THEN << text >>
     ELSE << Slice(text, 1, at - 1) >> \o SplitLines(Drop(text, at + 1))

\* The ids generateParagraphId may draw.
ParagraphIds == { "k3j9x0q2ab", "p0o9i8u7y6" }

\* textToProseMirror: one paragraph per line, each with an id of its own,
\* and a text node for the lines that are not blank.
textToProseMirror(text, ids) ==
  [type |-> "doc",
   content |-> [i \in DOMAIN SplitLines(text) |->
                  [type |-> "paragraph",
                   attrs |-> [id |-> ids[i], horizontalAlign |-> "null"],
                   content |-> IF Trim(SplitLines(text)[i]) # ""
                               THEN << [type |-> "text", text |-> SplitLines(text)[i]] >>
                               ELSE << >>]]]

\* A page as the service returns it; version_number is optional.
Page(id, title, version) ==
  [id |-> id, type |-> "pages", attributes |-> [title |-> title, version_number |-> version]]

Versions == { << >> } \cup { << v >> : v \in 0..MaxVersion }

\* getPage: GET pages/{id}?include=project,creator
getPage(pageId) ==
  [method |-> "GET", path |-> "pages/" \o pageId \o "?include=project,creator", query |-> << >>]

\* Mutant of versionAttribute: a version of 0 is taken for none.
versionAttributeIfTruthy(currentVersion) ==
  IF Truthy(currentVersion) THEN currentVersion ELSE << >>

\* if (currentVersion !== undefined) attributes.version_number = currentVersion
versionAttribute(currentVersion) == currentVersion

\* The update built from the arguments and the page read.
pageDataOf(a, currentPage, ids) ==
  [data |->
     [type |-> "pages", id |-> a.page_id,
      attributes |->
        [version_number |-> versionAttribute(currentPage.data.attributes.version_number),
         title |-> a.title,
         body |-> IF a.body = << >> THEN << >>
                  ELSE << textToProseMirror(a.body[1], ids) >>]]]

\* updatePage: PATCH pages/{id} with the update as its body.
updatePage(pageId, pageData) ==
  [method |-> "PATCH", path |-> "pages/" \o pageId, query |-> << >>, body |-> pageData]

\* What the service may answer to the read: a failure, a body without a
\* page, or the page at some version.
GetPageAnswers ==
  Failures \cup { HttpOk([data |-> << >>]) }
    \cup { HttpOk([data |-> Page("7", "Roadmap", v)]) : v \in Versions }

\* What the service may answer to the update.
UpdatePageAnswers ==
  Failures \cup { HttpOk([data |-> << >>]) }
    \cup { HttpOk([data |-> Page("7", "Plan", v)]) : v \in { << >>, << MaxVersion + 1 >> } }

\* page.attributes.version_number ?? 'N/A'
versionText(page) ==
  IF page.attributes.version_number = << >> THEN "N/A"
  ELSE ToString(page.attributes.version_number[1])

UpdatePageInit ==
  /\ mode = "update_page"
  /\ config = Config("u7")
  /\ args \in UpdatePageArgs
  /\ pc = "start"
  /\ requests = << >>
  /\ tasksPromise = Pending
  /\ tasksResponse = NoResponse
  /\ projectMap = << >>
  /\ promises = << >>
  /\ settled = << >>
  /\ personMap = << >>
  /\ taskCommentMap = << >>
  /\ tasksOutput = << >>
  /\ actionItems = << >>
  /\ stdout = << >>
  /\ stderr = << >>
  /\ result = NoResult

\* The arguments are parsed and the page is asked for.
updatePageStart ==
  /\ mode = "update_page" /\ pc = "start"
  /\ IF updatePageSchemaIssues(args) # << >>
     THEN /\ Finish(McpError("InvalidParams",
                      "Invalid parameters: " \o JoinWith(updatePageSchemaIssues(args), ", ")))
          /\ UNCHANGED requests
     ELSE /\ requests' = << getPage(args.page_id) >>
          /\ pc' = "awaitPage"
          /\ UNCHANGED result
  /\ UNCHANGED << mode, config, args, tasksPromise, tasksResponse, projectMap, promises,
                  settled, personMap, taskCommentMap, tasksOutput, actionItems, stdout,
                  stderr >>

\* The read is answered: a failure is rethrown as an McpError, no page ends
\* the call with "not found", and a page is followed by the update.
updatePageRead ==
  /\ mode = "update_page" /\ pc = "awaitPage"
  /\ \E answer \in GetPageAnswers :
       LET promise == makeRequest(answer) IN
       /\ promises' = << promise >>
       /\ stderr' = stderr \o makeRequestLog(config, requests[1], answer)
       /\ IF promise.state = "rejected"
          THEN Finish(McpError("InternalError", promise.reason)) /\ UNCHANGED requests
          ELSE IF promise.value.data = << >>
          THEN /\ Finish(Content("Page " \o args.page_id \o " not found."))
               /\ UNCHANGED requests
          ELSE /\ \E ids \in [1..3 -> ParagraphIds] :
                    requests' = Append(requests,
                                       updatePage(args.page_id, pageDataOf(args, promise.value, ids)))
               /\ pc' = "awaitUpdate"
               /\ UNCHANGED result
  /\ UNCHANGED << mode, config, args, tasksPromise, tasksResponse, projectMap, settled,
                  personMap, taskCommentMap, tasksOutput, actionItems, stdout >>

\* The update is answered.
updatePageSettles ==
  /\ mode = "update_page" /\ pc = "awaitUpdate"
  /\ \E answer \in UpdatePageAnswers :
       LET promise == makeRequest(answer) IN
       /\ promises' = Append(promises, promise)
       /\ stderr' = stderr \o makeRequestLog(config, requests[2], answer)
       /\ IF promise.state = "rejected"
          THEN Finish(McpError("InternalError", promise.reason))
          ELSE IF promise.value.data = << >>
          THEN Finish(Content("Failed to update page " \o args.page_id \o "."))
          ELSE Finish(Content("Page updated successfully!\nID: " \o promise.value.data.id
                                \o "\nTitle: " \o promise.value.data.attributes.title
                                \o "\nVersion: " \o versionText(promise.value.data)))
  /\ UNCHANGED << mode, config, args, requests, tasksPromise, tasksResponse, projectMap, settled,
                  personMap, taskCommentMap, tasksOutput, actionItems, stdout >>

UpdatePageNext ==
  \/ updatePageStart
  \/ updatePageRead
  \/ updatePageSettles

UpdatePageSpec == UpdatePageInit /\ [][UpdatePageNext]_vars

\* ------------------------------------------------------------------------
\* create_task, update_task_assignment, update_task_details (src/src/tools/tasks.ts)
\* ------------------------------------------------------------------------

\* The common catch of the three tools: a ZodError becomes an InvalidParams
\* McpError with the joined messages; any other Error, an McpError thrown
\* inside the try included, becomes an InternalError McpError carrying the
\* message of the error caught.
ZodError(issues) == [kind |-> "ZodError", code |-> "", text |-> JoinWith(issues, ", ")]

\* error.message of an error caught: an McpError's is "MCP error <code>: "
\* followed by the message it was constructed with.
messageOf(error) ==
  IF error.kind = "McpError"
  THEN "MCP error " \o (IF error.code = "InvalidParams" THEN "-32602" ELSE "-32603")
         \o ": " \o error.text
  ELSE error.text

rethrown(error) ==
  IF error.kind = "ZodError" THEN McpError("InvalidParams", "Invalid parameters: " \o error.text)
  ELSE McpError("InternalError", messageOf(error))

MeNotConfigured ==
  McpError("InvalidParams",
           "Cannot use \"me\" reference - PRODUCTIVE_USER_ID is not configured in environment")

\* Optional texts of the arguments: << >> when absent, << text >> when given.
IsGiven(opt) == opt # << >>
TruthyText(opt) == opt # << >> /\ opt[1] # ""

\* createTaskSchema
CreateTaskArgs ==
  { [title |-> title, description |-> description, project_id |-> project,
     board_id |-> << >>, task_list_id |-> << >>, assignee_id |-> assignee,
     due_date |-> << >>, status |-> "open", type_id |-> type, parent_task_id |-> parent] :
      title \in { "", "Ship it" }, description \in { << >>, << "soon" >> },
      project \in { << >>, << "pr1" >> }, assignee \in { << >>, << "me" >>, << "42" >> },
      type \in { << >>, << 2 >> }, parent \in { << >>, << "101" >> } }

createTaskSchemaIssues(a) ==
  IF Len(a.title) < 1 THEN << "Task title is required" >> ELSE << >>

\* A relationship of the request: << >> when not set.
Related(id, type) == << [data |-> [id |-> id, type |-> type]] >>
RelatedIf(opt, type) == IF TruthyText(opt) THEN Related(opt[1], type) ELSE << >>

\* taskData of createTaskTool for the arguments and the assignee resolved.
createTaskData(a, assigneeId) ==
  [data |->
     [type |-> "tasks",
      attributes |-> [title |-> a.title, description |-> a.description,
                      due_date |-> a.due_date,
                      status |-> IF a.status = "open" THEN 1 ELSE 2,
                      type_id |-> a.type_id],
      relationships |-> [project |-> RelatedIf(a.project_id, "projects"),
                         board |-> RelatedIf(a.board_id, "boards"),
                         task_list |-> RelatedIf(a.task_list_id, "task_lists"),
                         assignee |-> RelatedIf(assigneeId, "people"),
                         parent_task |-> RelatedIf(a.parent_task_id, "tasks")]]]

\* createTask: POST tasks; updateTask: PATCH tasks/{id}
createTask(taskData) == [method |-> "POST", path |-> "tasks", query |-> << >>, body |-> taskData]
updateTask(taskId, taskData) ==
  [method |-> "PATCH", path |-> "tasks/" \o taskId, query |-> << >>, body |-> taskData]

\* The task the service answers a write with.
WrittenTask(id, title, description, status) ==
  [id |-> id,
   attributes |-> [title |-> title, description |-> description, status |-> status,
                   due_date |-> Undefined, created_at |-> "2026-01-05T09:00:00Z",
                   updated_at |-> "2026-01-05T09:00:00Z"]]

WriteAnswers ==
  Failures \cup
  { HttpOk([data |-> WrittenTask("900", "Ship it", description, 1)]) :
      description \in { Undefined, "soon" } }

\* The text when the condition holds, nothing otherwise.
TextIf(cond, line) == IF cond THEN line ELSE ""

createTaskText(a, assigneeId, cfg, task) ==
  LET typeLabel == IF a.type_id = << 2 >> THEN "Milestone"
                   ELSE IF TruthyText(a.parent_task_id) THEN "Subtask" ELSE "Task"
  IN typeLabel \o " created successfully!\n"
       \o "Title: " \o task.attributes.title \o " (ID: " \o task.id \o ")"
       \o "\nType: " \o typeLabel
       \o TextIf(TruthyText(a.parent_task_id),
               "\nParent Task ID: " \o (IF IsGiven(a.parent_task_id) THEN a.parent_task_id[1] ELSE ""))
       \o TextIf(~Falsy(task.attributes.description), "\nDescription: " \o task.attributes.description)
       \o "\nStatus: " \o (IF task.attributes.status = 1 THEN "open" ELSE "closed")
       \o TextIf(~Falsy(task.attributes.due_date), "\nDue date: " \o task.attributes.due_date)
       \o TextIf(TruthyText(a.project_id),
               "\nProject ID: " \o (IF IsGiven(a.project_id) THEN a.project_id[1] ELSE ""))
       \o TextIf(TruthyText(assigneeId),
               "\nAssignee ID: " \o (IF IsGiven(assigneeId) THEN assigneeId[1] ELSE "")
                 \o TextIf(a.assignee_id = << "me" >> /\ ~Falsy(cfg.PRODUCTIVE_USER_ID), " (me)"))
       \o TextIf(~Falsy(task.attributes.created_at), "\nCreated at: " \o task.attributes.created_at)

\* The assignee the tools send for the one given: "me" stands for the
\* configured user.
resolvedAssignee(assignee, cfg) ==
  IF assignee = << "me" >> THEN << cfg.PRODUCTIVE_USER_ID >> ELSE assignee

TaskWriteInit ==
  /\ mode \in { "create_task", "update_task_assignment", "update_task_details" }
  /\ config \in Configs
  /\ args \in (IF mode = "create_task" THEN CreateTaskArgs
               ELSE IF mode = "update_task_assignment"
               THEN { [task_id |-> id, assignee_id |-> assignee] :
                        id \in { "", "101" }, assignee \in { "me", "42", "null", "" } }
               ELSE { [task_id |-> id, title |-> title, description |-> description] :
                        id \in { "", "101" }, title \in { << >>, << "" >>, << "Ship it" >> },
                        description \in { << >>, << "" >>, << "soon" >> } })
  /\ pc = "start"
  /\ requests = << >>
  /\ tasksPromise = Pending
  /\ tasksResponse = NoResponse
  /\ projectMap = << >>
  /\ promises = << >>
  /\ settled = << >>
  /\ personMap = << >>
  /\ taskCommentMap = << >>
  /\ tasksOutput = << >>
  /\ actionItems = << >>
  /\ stdout = << >>
  /\ stderr = << >>
  /\ result = NoResult

\* A tool's first step ends by throwing the error, or by sending the request.
ThrowOrSend(error, request) ==
  /\ IF error # << >>
     THEN Finish(rethrown(error[1])) /\ UNCHANGED requests
     ELSE requests' = << request >> /\ pc' = "awaitWrite" /\ UNCHANGED result
  /\ UNCHANGED << mode, config, args, tasksPromise, tasksResponse, projectMap, promises,
                  settled, personMap, taskCommentMap, tasksOutput, actionItems, stdout,
                  stderr >>

\* createTaskTool up to its await.
createTaskStart ==
  /\ mode = "create_task" /\ pc = "start"
  /\ ThrowOrSend(
       IF createTaskSchemaIssues(args) # << >> THEN << ZodError(createTaskSchemaIssues(args)) >>
       ELSE IF args.assignee_id = << "me" >> /\ ~userConfigured(config) THEN << MeNotConfigured >>
       ELSE << >>,
       createTask(createTaskData(args, resolvedAssignee(args.assignee_id, config))))

\* The answer to a write settles the call: a failure is rethrown as an
\* InternalError, a success returns the tool's text.
WriteSettled(answer, text) ==
  LET promise == makeRequest(answer) IN
  /\ promises' = << promise >>
  /\ stderr' = stderr \o makeRequestLog(config, requests[1], answer)
  /\ IF promise.state = "rejected"
     THEN Finish(rethrown([kind |-> "Error", code |-> "", text |-> promise.reason]))
     ELSE Finish(Content(text))
  /\ UNCHANGED << mode, config, args, requests, tasksPromise, tasksResponse, projectMap, settled,
                  personMap, taskCommentMap, tasksOutput, actionItems, stdout >>

createTaskSettles ==
  /\ mode = "create_task" /\ pc = "awaitWrite"
  /\ \E answer \in WriteAnswers :
       WriteSettled(answer,
                    IF answer.kind = "ok"
                    THEN createTaskText(args, resolvedAssignee(args.assignee_id, config),
                                        config, answer.body.data)
                    ELSE "")

\* updateTaskAssignmentSchema
updateTaskAssignmentSchemaIssues(a) ==
  IF Len(a.task_id) < 1 THEN << "Task ID is required" >> ELSE << >>

\* The assignee update_task_assignment sends: "me" is the configured user,
\* "null" (and the empty text, falsy) none.
assignmentAssignee(a, cfg) ==
  IF a.assignee_id = "me" THEN cfg.PRODUCTIVE_USER_ID
  ELSE IF a.assignee_id = "null" THEN ""
  ELSE a.assignee_id

assignmentUpdate(a, assigneeId) ==
  [data |->
     [type |-> "tasks", id |-> a.task_id,
      relationships |->
        [assignee |-> [data |-> IF Falsy(assigneeId) THEN << >>
                                ELSE << [id |-> assigneeId, type |-> "people"] >>]]]]

assignmentText(a, assigneeId, cfg, task) ==
  "Task assignment updated successfully!\n"
    \o "Task: " \o task.attributes.title \o " (ID: " \o task.id \o ")\n"
    \o (IF ~Falsy(assigneeId)
        THEN "Assigned to: Person ID " \o assigneeId
               \o TextIf(a.assignee_id = "me" /\ ~Falsy(cfg.PRODUCTIVE_USER_ID), " (me)")
        ELSE "Task is now unassigned")

\* updateTaskAssignmentTool up to its await.
updateTaskAssignmentStart ==
  /\ mode = "update_task_assignment" /\ pc = "start"
  /\ ThrowOrSend(
       IF updateTaskAssignmentSchemaIssues(args) # << >>
       THEN << ZodError(updateTaskAssignmentSchemaIssues(args)) >>
       ELSE IF args.assignee_id = "me" /\ ~userConfigured(config) THEN << MeNotConfigured >>
       ELSE << >>,
       updateTask(args.task_id, assignmentUpdate(args, assignmentAssignee(args, config))))

updateTaskAssignmentSettles ==
  /\ mode = "update_task_assignment" /\ pc = "awaitWrite"
  /\ \E answer \in WriteAnswers :
       WriteSettled(answer,
                    IF answer.kind = "ok"
                    THEN assignmentText(args, assignmentAssignee(args, config), config,
                                        answer.body.data)
                    ELSE "")

\* updateTaskDetailsSchema
updateTaskDetailsSchemaIssues(a) ==
  (IF Len(a.task_id) < 1 THEN << "Task ID is required" >> ELSE << >>)
    \o (IF a.title = << "" >> THEN << "Task title cannot be empty" >> ELSE << >>)

NoFieldGiven ==
  McpError("InvalidParams",
           "At least one field (title or description) must be provided for update")

\* The update of update_task_details: only the fields given.
detailsUpdate(a) ==
  [data |->
     [type |-> "tasks", id |-> a.task_id,
      attributes |-> [title |-> IF TruthyText(a.title) THEN a.title ELSE << >>,
                      description |-> a.description]]]

detailsText(a, task) ==
  "Task details updated successfully!\n"
    \o "Task: " \o task.attributes.title \o " (ID: " \o task.id \o ")\n"
    \o TextIf(TruthyText(a.title), "Title updated to: \"" \o task.attributes.title \o "\"\n")
    \o TextIf(IsGiven(a.description),
            IF ~Falsy(task.attributes.description)
            THEN "Description updated to: \"" \o task.attributes.description \o "\"\n"
            ELSE "Description cleared\n")
    \o TextIf(~Falsy(task.attributes.updated_at), "Updated at: " \o task.attributes.updated_at)

\* updateTaskDetailsTool up to its await.
updateTaskDetailsStart ==
  /\ mode = "update_task_details" /\ pc = "start"
  /\ ThrowOrSend(
       IF updateTaskDetailsSchemaIssues(args) # << >>
       THEN << ZodError(updateTaskDetailsSchemaIssues(args)) >>
       ELSE IF ~TruthyText(args.title) /\ ~IsGiven(args.description) THEN << NoFieldGiven >>
       ELSE << >>,
       updateTask(args.task_id, detailsUpdate(args)))

updateTaskDetailsSettles ==
  /\ mode = "update_task_details" /\ pc = "awaitWrite"
  /\ \E answer \in WriteAnswers :
       WriteSettled(answer,
                    IF answer.kind = "ok" THEN detailsText(args, answer.body.data) ELSE "")

TaskWriteNext ==
  \/ createTaskStart
  \/ createTaskSettles
  \/ updateTaskAssignmentStart
  \/ updateTaskAssignmentSettles
  \/ updateTaskDetailsStart
  \/ updateTaskDetailsSettles

TaskWriteSpec == TaskWriteInit /\ [][TaskWriteNext]_vars

\* ------------------------------------------------------------------------
\* list_tasks and get_project_tasks (src/src/tools/tasks.ts), with my_tasks
\* ------------------------------------------------------------------------

\* A task as the listing tools read it; the assignee is a person id.
ListedTask(id, title, status, parent, assignee) ==
  [id |-> id,
   attributes |-> [title |-> title, description |-> Undefined, status |-> status,
                   due_date |-> Undefined],
   relationships |-> [project |-> "pr1", parent_task |-> parent, assignee |-> assignee]]

\* Tasks of a listing: top-level ones, subtasks, and an entry without
\* attributes.
ListedTaskPool ==
  { ListedTask("201", "Launch", 1, Undefined, "p1"),
    ListedTask("202", "Write copy", 2, "201", Undefined),
    ListedTask("203", "Book venue", 1, "299", "p9"),
    ListedTask("205", "Retro", 3, Undefined, Undefined),
    [id |-> "204"] }

TaskListingAnswers(request) ==
  Failures \cup
  { HttpOk([data |-> list, included |-> included, meta |-> [total_count |-> total]]) :
      list \in { l \in UNION { [1..k -> ListedTaskPool] : k \in 0..PageSize(request) } :
                   Injective(l) },
      included \in { << >>,
                     << Person("p1", "Ann", "Lee", "ann@acme.io"),
                        IncludedTask("201", "Launch") >> },
      total \in { << >>, << 7 >> } }

\* Arguments of the three listing tools.
TaskListArgs ==
  { [project_id |-> project, assignee_id |-> Undefined, status |-> status, limit |-> limit,
     top_level_only |-> top] :
      project \in { "", "pr1" }, status \in { Undefined, "open", "done" },
      limit \in { << >>, << 1 >>, << 201 >> }, top \in { << >>, << FALSE >>, << TRUE >> } }

\* getProjectTasksSchema
getProjectTasksSchemaIssues(a) ==
  (IF Len(a.project_id) < 1 THEN << "Project ID is required" >> ELSE << >>)
  \o (IF a.status \notin {Undefined, "open", "closed"}
      THEN << "Invalid enum value. Expected 'open' | 'closed', received '" \o a.status \o "'" >>
      ELSE << >>)

\* personMap of the listing tools: id -> "First Last" trimmed, for the people
\* whose name is not empty.
listedPersonMapOf(response) ==
  LET people == SelectSeq(OfType(response.included, "people"),
                          LAMBDA p : Trim(p.attributes.first_name \o " " \o p.attributes.last_name) # "")
  IN [id \in { people[i].id : i \in DOMAIN people } |->
        Trim(people[LastWith(people, id)].attributes.first_name \o " "
               \o people[LastWith(people, id)].attributes.last_name)]

\* The text rendered for one task by list_tasks (with its project line) and
\* by get_project_tasks (without); the bullet is written in ASCII.
listedTaskText(task, people, titles, withProject) ==
  LET parentTaskId == task.relationships.parent_task
      assigneeId == task.relationships.assignee
  IN "* " \o task.attributes.title \o " (ID: " \o task.id \o ")"
       \o "\n  Status: " \o statusText(task)
       \o "\n  Type: " \o (IF hasParent(task)
                           THEN "Subtask of: " \o OrElse(Get(titles, parentTaskId), parentTaskId)
                           ELSE "Top-level task")
       \o "\n  " \o (IF Falsy(task.attributes.due_date) THEN "No due date"
                     ELSE "Due: " \o task.attributes.due_date)
       \o (IF withProject
           THEN "\n  " \o (IF Falsy(task.relationships.project) THEN ""
                           ELSE "Project ID: " \o task.relationships.project)
           ELSE "")
       \o "\n  " \o (IF Falsy(assigneeId) THEN "Unassigned"
                     ELSE "Assignee: " \o OrElse(Get(people, assigneeId), "Unknown")
                            \o " (ID: " \o assigneeId \o ")")
       \o "\n  " \o (IF Falsy(task.attributes.description) THEN ""
                     ELSE "Description: " \o task.attributes.description)

\* The texts of the tasks rendered, in order.
listedTasksText(response, a, withProject) ==
  LET shown == filteredTasksOf(response.data, a)
  IN JoinWith([i \in DOMAIN shown |->
                 listedTaskText(shown[i], listedPersonMapOf(response), taskTitleMapOf(response),
                                withProject)], "\n\n")

\* "N task" or "N tasks"
countText(n) == ToString(n) \o " task" \o (IF n # 1 THEN "s" ELSE "")

filterNote(a) == IF a.top_level_only = << TRUE >> THEN " (top-level only)" ELSE ""

\* The summary of list_tasks.
listTasksSummary(response, a) ==
  "Found " \o countText(Len(filteredTasksOf(response.data, a))) \o filterNote(a)
    \o (IF Truthy(response.meta.total_count)
        THEN " (from " \o ToString(response.meta.total_count[1]) \o " total)" ELSE "")
    \o ":\n\n" \o listedTasksText(response, a, TRUE)

\* The summary of get_project_tasks.
projectTasksSummary(response, a) ==
  "Project " \o a.project_id \o " has " \o countText(Len(filteredTasksOf(response.data, a)))
    \o filterNote(a) \o ":\n\n" \o listedTasksText(response, a, FALSE)

TaskListInit ==
  /\ mode \in { "my_tasks", "list_tasks", "get_project_tasks" }
  /\ config = Config("u7")
  /\ args \in TaskListArgs
  /\ pc = "start"
  /\ requests = << >>
  /\ tasksPromise = Pending
  /\ tasksResponse = NoResponse
  /\ projectMap = << >>
  /\ promises = << >>
  /\ settled = << >>
  /\ personMap = << >>
  /\ taskCommentMap = << >>
  /\ tasksOutput = << >>
  /\ actionItems = << >>
  /\ stdout = << >>
  /\ stderr = << >>
  /\ result = NoResult

\* A listing tool up to its await: the arguments are parsed and the listing
\* asked for.
ListingStart(issues, params) ==
  /\ pc = "start"
  /\ IF issues # << >>
     THEN /\ Finish(McpError("InvalidParams", "Invalid parameters: " \o JoinWith(issues, ", ")))
          /\ UNCHANGED requests
     ELSE /\ requests' = << listTasks(params) >>
          /\ pc' = "awaitTasks"
          /\ UNCHANGED result
  /\ UNCHANGED << mode, config, args, tasksPromise, tasksResponse, projectMap, promises,
                  settled, personMap, taskCommentMap, tasksOutput, actionItems, stdout,
                  stderr >>

\* A listing tool after its await: a failure is rethrown, an empty listing
\* and an empty filtered list have their messages, and the summary is
\* returned otherwise.
ListingSettled(answer, nothing, nothingTopLevel, summary) ==
  LET promise == makeRequest(answer) IN
  /\ tasksPromise' = promise
  /\ stderr' = stderr \o makeRequestLog(config, requests[1], answer)
  /\ IF promise.state = "rejected"
     THEN /\ Finish(McpError("InternalError", promise.reason))
          /\ UNCHANGED tasksResponse
     ELSE /\ tasksResponse' = promise.value
          /\ IF noTasks(promise.value)
             THEN Finish(Content(nothing))
             ELSE IF Len(filteredTasksOf(promise.value.data, args)) = 0
             THEN Finish(Content(IF args.top_level_only = << TRUE >>
                                 THEN nothingTopLevel ELSE nothing))
             ELSE Finish(Content(summary))
  /\ UNCHANGED << mode, config, args, requests, projectMap, promises, settled,
                  personMap, taskCommentMap, tasksOutput, actionItems, stdout >>

listTasksStart ==
  /\ mode = "list_tasks"
  /\ ListingStart(myTasksSchemaIssues(args),
                  [NoTaskParams EXCEPT !.project_id = args.project_id,
                                       !.assignee_id = args.assignee_id,
                                       !.status = args.status,
                                       !.limit = args.limit,
                                       !.include = << "assignee", "parent_task" >>])

listTasksSettle ==
  /\ mode = "list_tasks" /\ pc = "awaitTasks"
  /\ \E answer \in TaskListingAnswers(requests[1]) :
       ListingSettled(answer,
                      "No tasks found matching the criteria.",
                      "No top-level tasks found matching the criteria (all tasks are subtasks).",
                      IF answer.kind = "ok" THEN listTasksSummary(answer.body, args) ELSE "")

getProjectTasksStart ==
  /\ mode = "get_project_tasks"
  /\ ListingStart(getProjectTasksSchemaIssues(args),
                  [NoTaskParams EXCEPT !.project_id = args.project_id,
                                       !.status = args.status,
                                       !.limit = << 200 >>,
                                       !.include = << "assignee", "parent_task" >>])

getProjectTasksSettle ==
  /\ mode = "get_project_tasks" /\ pc = "awaitTasks"
  /\ \E answer \in TaskListingAnswers(requests[1]) :
       ListingSettled(answer,
                      "No tasks found for project " \o args.project_id \o ".",
                      "No top-level tasks found for project " \o args.project_id
                        \o " (all tasks are subtasks).",
                      IF answer.kind = "ok" THEN projectTasksSummary(answer.body, args) ELSE "")

\* my_tasks over the same listings.
myTasksListed ==
  /\ mode = "my_tasks" /\ pc = "awaitTasks"
  /\ \E answer \in TaskListingAnswers(requests[1]) :
       ListingSettled(answer,
                      "You have no tasks assigned to you.",
                      "You have no top-level tasks assigned to you (all your tasks are subtasks).",
                      IF answer.kind = "ok" THEN myTasksSummary(answer.body, args) ELSE "")

TaskListNext ==
  \/ myTasksStart
  \/ myTasksListed
  \/ listTasksStart
  \/ listTasksSettle
  \/ getProjectTasksStart
  \/ getProjectTasksSettle

TaskListSpec == TaskListInit /\ [][TaskListNext]_vars

\* ------------------------------------------------------------------------
\* Comment requests: the inbox view and direct calls of listComments
\* ------------------------------------------------------------------------

\* Parameters of a direct call of listComments: no, one or several task ids.
ListCommentsParams ==
  { [task_ids |-> ids, project_ids |-> projects, limit |-> limit, page |-> page] :
      ids \in UNION { [1..k -> {"101", "102"}] : k \in 0..MaxTasks },
      projects \in { << >>, << "pr1" >>, << "pr1", "pr2" >> },
      limit \in { << >>, << 0 >>, << 1 >> },
      page \in { << >>, << 2 >> } }

CommentRequestInit ==
  /\ \/ mode \in {"task_inbox", "cli_inbox"} /\ args \in ArgsOf(mode) /\ pc = "start"
     \/ mode = "listComments" /\ args \in ListCommentsParams /\ pc = "call"
  /\ config = Config("u7")
  /\ requests = << >>
  /\ tasksPromise = Pending
  /\ tasksResponse = NoResponse
  /\ projectMap = << >>
  /\ promises = << >>
  /\ settled = << >>
  /\ personMap = << >>
  /\ taskCommentMap = << >>
  /\ tasksOutput = << >>
  /\ actionItems = << >>
  /\ stdout = << >>
  /\ stderr = << >>
  /\ result = NoResult

\* A direct call of listComments: the request is built and handed to
\* makeRequest, whose promise settles on the answer.
listCommentsCall ==
  /\ mode = "listComments" /\ pc = "call"
  /\ requests' = << listComments(args) >>
  /\ \E answer \in CommentAnswers :
       /\ promises' = << makeRequest(answer) >>
       /\ stderr' = stderr \o makeRequestLog(config, listComments(args), answer)
  /\ pc' = "done"
  /\ UNCHANGED << mode, config, args, tasksPromise, tasksResponse, projectMap, settled,
                  personMap, taskCommentMap, tasksOutput, actionItems, stdout, result >>

CommentRequestNext ==
  \/ taskInboxStart
  \/ taskInboxTasksSettle
  \/ commentSettles
  \/ taskInboxJoin
  \/ taskInboxCatch
  \/ cliStart
  \/ cliTasksSettle
  \/ cliJoin
  \/ cliCatch
  \/ listCommentsCall

CommentRequestSpec == CommentRequestInit /\ [][CommentRequestNext]_vars

\* ------------------------------------------------------------------------
\* The suggestions of the tool and of the script with --actions, collected
\* from the same task list and the same comment responses
\* ------------------------------------------------------------------------

\* A comment response holding one comment, with or without its author inlined.
OneCommentPages ==
  { [data |-> << Comment("c9", body, creator) >>, included |-> included] :
      body \in SuggestBodies, creator \in { "p1", Undefined },
      included \in { << Person("p1", "Ann", "Lee", "ann@acme.io") >> } }

\* A task and its comment response: every title without a comment, and a
\* title that has a rule of its own under every comment.
SuggestCases ==
  { << SuggestTask(title), [data |-> << >>, included |-> << >>] >> : title \in SuggestTitles }
  \cup { << SuggestTask(title), page >> :
           title \in { "CRITICAL: payment bug" }, page \in OneCommentPages }

\* A second task of the list, with its comment response.
OtherCases ==
  { << t, page >> : t \in { task \in TaskPool : task.id = "103" },
                    page \in CommentPages }

\* Task lists of one or two tasks with the responses of their comment requests.
BothInputs ==
  { << c >> : c \in SuggestCases }
  \cup { << c, o >> : c \in SuggestCases, o \in OtherCases }
  \cup { << o, c >> : c \in SuggestCases, o \in OtherCases }

BothInit ==
  /\ mode = "both_inboxes"
  /\ config = Config("u7")
  /\ args = Args(<< >>, FALSE, TRUE, Undefined, << >>)
  /\ pc = "awaitComments"
  /\ requests = << >>
  /\ tasksPromise = Pending
  /\ \E input \in BothInputs :
       /\ tasksResponse = [NoResponse EXCEPT !.data = [i \in DOMAIN input |-> input[i][1]]]
       /\ promises = [i \in DOMAIN input |-> Fulfilled(input[i][2])]
       /\ settled = [i \in DOMAIN input |-> i]
  /\ projectMap = << >>
  /\ personMap = << >>
  /\ taskCommentMap = << >>
  /\ tasksOutput = << >>
  /\ actionItems = << >>
  /\ stdout = << >>
  /\ stderr = << >>
  /\ result = NoResult

\* Both loops over the same responses: actionItems are the tool's suggestions
\* and stdout the lines the script prints for its own.
bothJoin ==
  /\ mode = "both_inboxes" /\ pc = "awaitComments"
  /\ joinReady(promises)
  /\ LET commentResponses == PromiseAllValues(promises, settled)
         people == PersonMapOf(commentResponses)
         latest == TaskCommentMapOf(TaskIdsOf(tasksResponse), commentResponses)
         n == Len(tasksResponse.data)
         items == actionItemsOf(tasksResponse.data, n, latest, people, FALSE)
     IN /\ personMap' = people
        /\ taskCommentMap' = latest
        /\ actionItems' = actionItemsOf(tasksResponse.data, n, latest, people, TRUE)
        /\ stdout' = IF args.showActions /\ Len(items) > 0
                     THEN << "Suggested Actions:" >> \o items ELSE << >>
        /\ pc' = "done"
  /\ UNCHANGED << mode, config, args, requests, tasksPromise, tasksResponse, projectMap,
                  promises, settled, tasksOutput, stderr, result >>

BothNext == bothJoin

BothSpec == BothInit /\ [][BothNext]_vars

\* Instants up to MaxDays days after Now: a clock that runs behind the
\* service's, or an activity dated ahead.
FutureInstants == { Now + (d * HoursPerDay + h) : d \in 0..MaxDays, h \in {0, 1, HoursPerDay - 1} }

\* formatRelativeTime over timestamps on both sides of the clock's reading.
AnyTimeInit ==
  CallInit("formatRelativeTime",
           { [attributes |-> [last_activity_at |-> a, updated_at |-> Now - 3 * HoursPerDay]] :
               a \in PastInstants \cup FutureInstants })

AnyTimeNext == formatRelativeTimeCall

AnyTimeSpec == AnyTimeInit /\ [][AnyTimeNext]_vars

\* ------------------------------------------------------------------------
\* Properties
\* ------------------------------------------------------------------------

\* The text s begins with the text sub.
StartsWith(s, sub) == Len(s) >= Len(sub) /\ SubSeq(s, 1, Len(sub)) = sub

\* The inbox view has rendered its blocks: the tool returned the text, or the
\* script printed it and exited normally.
ToolRendered ==
  mode = "task_inbox" /\ pc = "done" /\ result.kind = "content" /\ Len(tasksResponse.data) > 0
CliRendered ==
  mode = "cli_inbox" /\ pc = "done" /\ result = Exit("0") /\ Len(tasksResponse.data) > 0

\* C1: the inbox view renders one block per task of the returned list, in the
\* returned order, and the block at position i carries ordinal i and the URL
\* of the i-th task; the tool's text is the header followed by these blocks in
\* that order.
C1_OrderPreserved ==
  LET tasks == tasksResponse.data
      n == Len(tasks)
      Prefix(i) == ToString(i) \o ". https://app.productive.io/"
                     \o config.PRODUCTIVE_ORG_ID \o "/tasks/" \o tasks[i].id \o " | "
  IN /\ ToolRendered =>
          /\ Len(tasksOutput) = n
          /\ \A i \in 1..n : StartsWith(tasksOutput[i], Prefix(i))
          /\ StartsWith(result.text,
                        inboxHeader(tasksResponse) \o "\n\n" \o JoinWith(tasksOutput, "\n\n"))
     /\ CliRendered =>
          /\ Len(stdout) >= 1 + 3 * n
          /\ \A i \in 1..n : StartsWith(stdout[3 * i - 1], Prefix(i))

\* C1 witness: the tool rendered two tasks whose list order is not the order
\* of their ids, the second comment having arrived first.
C1_Witness ==
  /\ ToolRendered
  /\ Len(tasksResponse.data) = 2
  /\ tasksResponse.data[1].id = "103" /\ tasksResponse.data[2].id = "101"
  /\ settled = << 2, 1 >>

\* C2: every rendered task has one content line, chosen by priority: the
\* latest comment (author and body) if its response held one, else its
\* stripped description if that is non-empty, else the "No content" marker.
\* The tool's block is its header line followed by that line; the script
\* prints it as the second line of the task.
C2_ContentPriority ==
  LET tasks == tasksResponse.data
      HasComment(i) == Len(promises[i].value.data) > 0
      Latest(i) == promises[i].value.data[1]
      Description(i) ==
        IF tasks[i].attributes.description \in {Undefined, ""} THEN ""
        ELSE Stripped(tasks[i].attributes.description)
      AuthorPrefix(i) == "   " \o authorNameOf(Latest(i), personMap, "Unknown") \o ": "
      ToolBlock(i, line) ==
        tasksOutput[i] = blockHeader(i, tasks[i], config, projectMap) \o "\n" \o line
  IN /\ ToolRendered =>
          \A i \in 1..Len(tasks) :
            /\ HasComment(i) =>
                 ToolBlock(i, AuthorPrefix(i) \o Stripped(Latest(i).attributes.body))
            /\ (~HasComment(i) /\ Description(i) # "") =>
                 ToolBlock(i, "   Description: " \o Description(i))
            /\ (~HasComment(i) /\ Description(i) = "") => ToolBlock(i, "   No content")
     /\ CliRendered =>
          \A i \in 1..Len(tasks) :
            /\ HasComment(i) =>
                 /\ StartsWith(stdout[3 * i], AuthorPrefix(i))
                 /\ args.showFull =>
                      stdout[3 * i] = AuthorPrefix(i)
                                        \o MentionCleaned(Stripped(Latest(i).attributes.body))
            /\ (~HasComment(i) /\ Description(i) # "") =>
                 /\ StartsWith(stdout[3 * i], "   Description: ")
                 /\ args.showFull =>
                      stdout[3 * i] = "   Description: " \o MentionCleaned(Description(i))
            /\ (~HasComment(i) /\ Description(i) = "") => stdout[3 * i] = "   No content"

\* C2 witness: a rendered inbox where one task has both a comment and a
\* description, and the other neither a comment nor a non-empty description.
C2_Witness ==
  /\ ToolRendered \/ CliRendered
  /\ Len(tasksResponse.data) = 2
  /\ tasksResponse.data[1].id = "101" /\ Len(promises[1].value.data) > 0
  /\ tasksResponse.data[2].id = "103" /\ Len(promises[2].value.data) = 0

InboxView == mode \in {"task_inbox", "cli_inbox"}

\* The reasons of the requests of this invocation that failed.
FailureReasons ==
  (IF tasksPromise.state = "rejected" THEN { tasksPromise.reason } ELSE {})
    \cup { promises[i].reason : i \in { j \in DOMAIN promises : promises[j].state = "rejected" } }

\* C3: once the task-listing request or any one comment request has failed,
\* the inbox view returns or prints no inbox text and builds nothing, and it
\* ends in an error whose message is the failed request's: an InternalError
\* of the tool, a last line "Error: ..." on the error stream and exit status
\* 1 of the script.
C3_FailureIsFatal ==
  (InboxView /\ FailureReasons # {}) =>
    /\ result.kind # "content" /\ result # Exit("0")
    /\ tasksOutput = << >> /\ stdout = << >>
    /\ personMap = << >> /\ taskCommentMap = << >> /\ actionItems = << >>
    /\ FailureReasons \subseteq
         { "API request failed with status 500", "Invalid filter", "fetch failed" }
    /\ pc = "done" =>
         /\ mode = "task_inbox" =>
              \E reason \in FailureReasons : result = McpError("InternalError", reason)
         /\ mode = "cli_inbox" =>
              /\ result = Exit("1")
              /\ stderr # << >>
              /\ \E reason \in FailureReasons : stderr[Len(stderr)] = "Error: " \o reason

\* C3 witness: of two comment requests the second was answered with a comment
\* and the first then failed; the tool ended with the failure's message.
C3_Witness ==
  /\ mode = "task_inbox" /\ pc = "done"
  /\ Len(promises) = 2 /\ settled = << 2, 1 >>
  /\ promises[2].state = "fulfilled" /\ Len(promises[2].value.data) > 0
  /\ promises[1].state = "rejected"
  /\ result = McpError("InternalError", "Invalid filter")

\* C4: the comment requests are issued together, one per returned task, when
\* the task list arrives: none earlier, and all N are issued while none of
\* them is answered yet. Until every one of the N is answered the view has
\* built no lookup table and rendered nothing; what is built or rendered was
\* built with all N fulfilled.
C4_FanOutThenJoin ==
  LET n == Len(tasksResponse.data)
      built == \/ personMap # << >> \/ taskCommentMap # << >> \/ tasksOutput # << >>
               \/ actionItems # << >> \/ stdout # << >> \/ result.kind = "content"
                                                        \/ result = Exit("0")
  IN InboxView =>
       /\ pc \in {"start", "awaitTasks"} => Len(requests) <= 1 /\ promises = << >>
       /\ (pc = "awaitComments" \/ promises # << >>) =>
            /\ Len(promises) = n
            /\ Len(requests) = 1 + n
            /\ \A i \in 1..n : requests[1 + i].path = "comments"
       /\ pc = "awaitComments" => ~built
       /\ (built /\ n > 0) =>
            /\ \A i \in 1..n : promises[i].state = "fulfilled"
            /\ Len(settled) = n

\* C4 witness: two comment requests are out, one is answered and the other
\* pending, and the view is still waiting.
C4_Witness ==
  /\ InboxView /\ pc = "awaitComments"
  /\ Len(requests) = 3 /\ Len(promises) = 2
  /\ settled = << 2 >>
  /\ promises[1].state = "pending" /\ promises[2].state = "fulfilled"

\* C5: in a rendered inbox, whatever the order the comment requests were
\* answered in, the request at position i carries the id of the task at
\* position i, and that task is paired with the first comment of the answer
\* to that request; a task whose answer holds no comment has no entry in the
\* map.
C5_PairedByPosition ==
  LET tasks == tasksResponse.data
  IN (ToolRendered \/ CliRendered) =>
       \A i \in 1..Len(tasks) :
         /\ QueryValue(requests[1 + i], "filter[task_id]") = tasks[i].id
         /\ Len(promises[i].value.data) > 0 =>
              /\ tasks[i].id \in DOMAIN taskCommentMap
              /\ taskCommentMap[tasks[i].id] = promises[i].value.data[1]
         /\ Len(promises[i].value.data) = 0 => tasks[i].id \notin DOMAIN taskCommentMap

\* C5 witness: the second request was answered first, with no comment, and
\* the first request last, with a comment.
C5_Witness ==
  /\ ToolRendered \/ CliRendered
  /\ settled = << 2, 1 >>
  /\ Len(promises[2].value.data) = 0
  /\ Len(promises[1].value.data) > 0

\* C6: with no user id configured, task_inbox and my_tasks issue no request
\* and return the fixed "not configured" text as their content, whatever the
\* arguments (valid or not); the script issues no request either.
C6_NotConfigured ==
  config.PRODUCTIVE_USER_ID = Undefined =>
    /\ requests = << >>
    /\ (mode \in {"task_inbox", "my_tasks"} /\ pc = "done") =>
         result = Content("User ID not configured. Please set PRODUCTIVE_USER_ID in your environment variables to use this feature.")

\* C6 witness: task_inbox was called without a configured user id and with a
\* limit its schema rejects, and has returned.
C6_Witness ==
  /\ mode = "task_inbox" /\ pc = "done"
  /\ config.PRODUCTIVE_USER_ID = Undefined
  /\ args.limit = << 51 >>
  /\ result.kind = "content"

\* C7: when the task list arrives empty the inbox view is over at once: the
\* tool returns "No tasks in your inbox.", the script prints it and exits with
\* status 0, and the task-listing request is the only request issued.
C7_EmptyInbox ==
  (InboxView /\ tasksPromise.state = "fulfilled" /\ Len(tasksPromise.value.data) = 0) =>
    /\ pc = "done"
    /\ Len(requests) = 1 /\ promises = << >>
    /\ mode = "task_inbox" => result = Content("No tasks in your inbox.")
    /\ mode = "cli_inbox" =>
         /\ result = Exit("0")
         /\ stdout = << "No tasks in your inbox." >> /\ stderr = << >>

\* C7 witness: the script received an empty task list.
C7_Witness ==
  /\ mode = "cli_inbox" /\ pc = "done"
  /\ tasksPromise.state = "fulfilled" /\ Len(tasksPromise.value.data) = 0
  /\ stdout = << "No tasks in your inbox." >>

\* The one task of the suggestion engine's specification, its comment and
\* the comment's plain text in lower case.
SuggestedTask == tasksResponse.data[1]
HasLatestComment == SuggestedTask.id \in DOMAIN taskCommentMap
LatestBody == LowerCased(Stripped(taskCommentMap[SuggestedTask.id].attributes.body))
Marked(body) == Includes(body, "?") \/ Includes(body, "@")

\* The rules for a marked comment, in their fixed order: the keywords of each
\* and the sentence it produces.
OrderedRules(author) ==
  << << {"close", "chiudi"}, author \o " is asking about closing this task." >>,
     << {"review", "controlla"}, "Review requested by " \o author \o "." >>,
     << {"help", "aiut"}, author \o " is asking for help." >>,
     << {"publish", "pubblica"}, author \o " needs you to publish something." >> >>

FirstMatchSentence(body, author) ==
  LET rules == OrderedRules(author)
      matching == { k \in DOMAIN rules : \E word \in rules[k][1] : Includes(body, word) }
  IN IF matching # {}
     THEN rules[CHOOSE k \in matching : \A j \in matching : k <= j][2]
     ELSE IF Includes(body, "?") THEN author \o " asked a question."
     ELSE "You were mentioned."

\* C8: a task whose latest comment, stripped and lower-cased, contains "?" or
\* "@" gets exactly one suggestion, that of the first rule that matches in
\* the order close/chiudi, review/controlla, help/aiut, publish/pubblica,
\* question mark, mention.
C8_FirstRuleWins ==
  (pc = "done" /\ HasLatestComment /\ Marked(LatestBody)) =>
    LET creator == taskCommentMap[SuggestedTask.id].relationships.creator
        author == IF creator = "p1" THEN "Ann Lee" ELSE "Someone"
    IN /\ Len(actionItems) = 1
       /\ StartsWith(actionItems[1], "#1 - " \o FirstMatchSentence(LatestBody, author))

\* C8 witness: a comment naming help before review, with a question mark, was
\* classified as a review request.
C8_Witness ==
  /\ pc = "done" /\ HasLatestComment
  /\ taskCommentMap[SuggestedTask.id].attributes.body = "<p>so help or review?</p>"
  /\ taskCommentMap[SuggestedTask.id].relationships.creator = "p1"
  /\ actionItems = << "#1 - Review requested by Ann Lee." >>

\* C9: a task without a comment whose title contains "critical" in any case,
\* or the warning emblem, gets the CRITICAL suggestion, also when the title
\* contains "bug"; otherwise a title containing "bug" gets the bug suggestion,
\* and any other title none. A task with a comment gets no title suggestion,
\* and none at all when the comment contains neither "?" nor "@".
C9_TitleRules ==
  LET title == SuggestedTask.attributes.title
      critical == Includes(LowerCased(title), "critical") \/ Includes(title, WarningEmblem)
      bug == Includes(LowerCased(title), "bug")
      titleItems == { "#1 - CRITICAL bug needs immediate attention.", "#1 - Bug to investigate." }
  IN pc = "done" =>
       /\ (~HasLatestComment /\ critical) =>
            actionItems = << "#1 - CRITICAL bug needs immediate attention." >>
       /\ (~HasLatestComment /\ ~critical /\ bug) =>
            actionItems = << "#1 - Bug to investigate." >>
       /\ (~HasLatestComment /\ ~critical /\ ~bug) => actionItems = << >>
       /\ HasLatestComment =>
            /\ \A k \in DOMAIN actionItems : actionItems[k] \notin titleItems
            /\ ~Marked(LatestBody) => actionItems = << >>

\* C9 witness: the title "CRITICAL: payment bug" without a comment got the
\* CRITICAL suggestion.
C9_Witness ==
  /\ pc = "done" /\ ~HasLatestComment
  /\ SuggestedTask.attributes.title = "CRITICAL: payment bug"
  /\ actionItems = << "#1 - CRITICAL bug needs immediate attention." >>

\* The ordinals an item is labelled with, among 1..n.
OrdinalsOf(item, n) == { i \in 1..n : StartsWith(item, "#" \o ToString(i) \o " - ") }

\* C10: the suggestions of a rendered inbox are at most as many as its tasks;
\* each carries the ordinal of exactly one task, the ordinals increase
\* strictly along the list, and each suggestion is the one derived from the
\* task at its ordinal, while every other task has none.
C10_OnePerTaskInOrder ==
  LET tasks == tasksResponse.data
      n == Len(tasks)
      Ordinal(k) == CHOOSE i \in OrdinalsOf(actionItems[k], n) : TRUE
      ItemsOfTask(i) ==
        actionItemsFor(i, tasks[i], taskCommentMap, personMap, mode = "task_inbox")
  IN (ToolRendered \/ (CliRendered /\ args.showActions)) =>
       /\ Len(actionItems) <= n
       /\ \A k \in DOMAIN actionItems : Cardinality(OrdinalsOf(actionItems[k], n)) = 1
       /\ \A k, l \in DOMAIN actionItems : k < l => Ordinal(k) < Ordinal(l)
       /\ \A k \in DOMAIN actionItems : ItemsOfTask(Ordinal(k)) = << actionItems[k] >>
       /\ \A i \in 1..n :
            (\A k \in DOMAIN actionItems : Ordinal(k) # i) => ItemsOfTask(i) = << >>
       /\ \A i \in 1..n : Len(ItemsOfTask(i)) <= 1

\* C10 witness: of two rendered tasks only the second has a suggestion, and
\* it is labelled #2.
C10_Witness ==
  /\ ToolRendered
  /\ Len(tasksResponse.data) = 2
  /\ Len(actionItems) = 1
  /\ StartsWith(actionItems[1], "#2 - ")

\* C11: the "Suggested Actions" section is in the output exactly when some
\* task produced a suggestion. With none, the tool's text is the header and
\* the blocks and nothing more, and the script prints nothing after the last
\* block; with some, the heading follows the blocks and the suggestions
\* follow the heading. The script collects suggestions only under --actions.
C11_SectionIffSuggestion ==
  LET tasks == tasksResponse.data
      n == Len(tasks)
      Suggests(i) == suggestionRule(tasks[i], taskCommentMap) # "none"
      some == \E i \in 1..n : Suggests(i)
      base == inboxHeader(tasksResponse) \o "\n\n" \o JoinWith(tasksOutput, "\n\n")
  IN /\ ToolRendered =>
          /\ some <=> actionItems # << >>
          /\ ~some => result.text = base
          /\ some => result.text = base \o "\n\nSuggested Actions:\n"
                                        \o JoinWith(actionItems, "\n")
     /\ CliRendered =>
          /\ (some /\ args.showActions) <=> actionItems # << >>
          /\ \A k \in 1..Min(Len(stdout), 1 + 3 * n) : stdout[k] # "Suggested Actions:"
          /\ actionItems = << >> => Len(stdout) = 1 + 3 * n
          /\ actionItems # << >> =>
               /\ Len(stdout) = 2 + 3 * n + Len(actionItems)
               /\ stdout[2 + 3 * n] = "Suggested Actions:"
               /\ \A k \in DOMAIN actionItems : stdout[2 + 3 * n + k] = actionItems[k]

\* C11 witness: the tool rendered two tasks, one of them with a comment, none
\* of them with a suggestion, and its text ends with the last block.
C11_Witness ==
  /\ ToolRendered
  /\ Len(tasksResponse.data) = 2
  /\ taskCommentMap # << >>
  /\ actionItems = << >>
  /\ result.text = inboxHeader(tasksResponse) \o "\n\n" \o JoinWith(tasksOutput, "\n\n")

\* The page size the task-listing request of this invocation asks for.
RequestedPageSize == QueryValue(requests[1], "page[size]")

\* The row limit holds for the given entry points: without a limit 10 tasks
\* are requested, a limit in 1..50 is requested as given, and with any other
\* limit no request is issued and the invocation ends in an error.
LimitBounded(modes) ==
  (mode \in modes /\ config.PRODUCTIVE_USER_ID # Undefined) =>
    /\ (args.limit = << >> /\ requests # << >>) => RequestedPageSize = "10"
    /\ (args.limit # << >> /\ requests # << >>) =>
         /\ args.limit[1] \in 1..50
         /\ RequestedPageSize = ToString(args.limit[1])
    /\ (args.limit # << >> /\ args.limit[1] \notin 1..50) =>
         /\ requests = << >>
         /\ pc = "done" =>
              \/ result.kind = "McpError" /\ result.code = "InvalidParams"
              \/ result = Exit("1")

\* C12: the row limit of the inbox view is bounded to 1..50 with default 10,
\* in the tool and in the script: no limit requests 10 tasks, a limit within
\* 1..50 is passed to the task-listing request unchanged, and a limit outside
\* 1..50 is rejected before any request is issued.
C12_LimitBounded == LimitBounded({"task_inbox", "cli_inbox"})

\* The same for the task_inbox tool alone, whose schema checks the limit.
C12_ToolLimitBounded == LimitBounded({"task_inbox"})

\* The ids of the entities of a type among included entities.
IncludedIds(entities, type) ==
  { entities[k].id : k \in { j \in DOMAIN entities : entities[j].type = type } }

\* The people every comment response of this invocation included.
IncludedPeople ==
  UNION { IncludedIds(promises[i].value.included, "people") : i \in DOMAIN promises }

\* C13: a rendered inbox has all N blocks whatever the lookups miss. The
\* header line of a task without a project relationship names "No Project",
\* that of a task whose project is not among the included projects names
\* "Unknown Project"; a comment without a creator, or whose creator no comment
\* response included, is attributed to "Unknown".
C13_LookupMissPlaceholders ==
  LET tasks == tasksResponse.data
      n == Len(tasks)
      project(i) == tasks[i].relationships.project
      Start(i, name) == ToString(i) \o ". " \o taskUrl(config, tasks[i]) \o " | " \o name \o " | "
      HeaderLine(i) == IF mode = "task_inbox" THEN tasksOutput[i] ELSE stdout[3 * i - 1]
      HasComment(i) == Len(promises[i].value.data) > 0
      creator(i) == promises[i].value.data[1].relationships.creator
      body(i) == promises[i].value.data[1].attributes.body
  IN (ToolRendered \/ CliRendered) =>
       /\ mode = "task_inbox" => Len(tasksOutput) = n
       /\ mode = "cli_inbox" => Len(stdout) >= 1 + 3 * n
       /\ \A i \in 1..n :
            /\ project(i) = Undefined => StartsWith(HeaderLine(i), Start(i, "No Project"))
            /\ (project(i) # Undefined
                  /\ project(i) \notin IncludedIds(tasksResponse.included, "projects")) =>
                 StartsWith(HeaderLine(i), Start(i, "Unknown Project"))
            /\ (HasComment(i) /\ (creator(i) = Undefined \/ creator(i) \notin IncludedPeople)) =>
                 IF mode = "task_inbox"
                 THEN tasksOutput[i] = blockHeader(i, tasks[i], config, projectMap)
                                         \o "\n   Unknown: " \o Stripped(body(i))
                 ELSE StartsWith(stdout[3 * i], "   Unknown: ")

\* C13 witness: the tool rendered a task of a project that was not included,
\* with a comment by a person no response included, and a task of no project.
C13_Witness ==
  /\ ToolRendered
  /\ Len(tasksResponse.data) = 2
  /\ tasksResponse.data[1].id = "102" /\ tasksResponse.data[2].id = "103"
  /\ Len(promises[1].value.data) > 0
  /\ promises[1].value.data[1].relationships.creator = "p2"
  /\ "p2" \notin IncludedPeople

\* C14: truncate returns a text no longer than maxLength unchanged; a longer
\* text, for maxLength above 3, comes back with length exactly maxLength: its
\* first maxLength - 3 characters followed by "...".
C14_TruncateLength ==
  (mode = "truncate" /\ pc = "done") =>
    LET s == args.text
        n == args.maxLength
        r == result.text
    IN /\ Len(s) <= n => r = s
       /\ (Len(s) > n /\ n > 3) =>
            /\ Len(r) = n
            /\ SubSeq(r, n - 2, n) = "..."
            /\ SubSeq(r, 1, n - 3) = SubSeq(s, 1, n - 3)

\* C14 witness: a text of ten characters was cut to seven.
C14_Witness ==
  /\ mode = "truncate" /\ pc = "done"
  /\ args = [text |-> "abcdefghij", maxLength |-> 7]
  /\ result.text = "abcd..."

\* C15: the age shown for a task is that of last_activity_at, or of
\* updated_at when that is absent, and for d >= 0 whole days elapsed it is:
\* 0 "today"; 1 "1 day ago"; 2..6 "<d> days ago"; 7..13 "1 week ago"; 14..29
\* "<d div 7> weeks ago"; 30..59 "1 month ago"; from 60 on the calendar date.
C15_RelativeAgeTable ==
  (mode = "formatRelativeTime" /\ pc = "done") =>
    LET used == IF args.attributes.last_activity_at = NoTimestamp
                THEN args.attributes.updated_at ELSE args.attributes.last_activity_at
        elapsed == Now - used
        d == CHOOSE k \in 0..(MaxDays + 1) :
               k * HoursPerDay <= elapsed /\ elapsed < (k + 1) * HoursPerDay
        r == result.text
    IN /\ d = 0 => r = "today"
       /\ d = 1 => r = "1 day ago"
       /\ d \in 2..6 => r = ToString(d) \o " days ago"
       /\ d \in 7..13 => r = "1 week ago"
       /\ d \in 14..20 => r = "2 weeks ago"
       /\ d \in 21..27 => r = "3 weeks ago"
       /\ d \in 28..29 => r = "4 weeks ago"
       /\ d \in 30..59 => r = "1 month ago"
       /\ d >= 60 => r = "day " \o ToString(used \div HoursPerDay)

\* C15 witness: a task without last_activity_at, updated 14 days and 23
\* hours ago, is shown as "2 weeks ago".
C15_Witness ==
  /\ mode = "formatRelativeTime" /\ pc = "done"
  /\ args.attributes.last_activity_at = NoTimestamp
  /\ args.attributes.updated_at = Now - (14 * HoursPerDay + 23)
  /\ result.text = "2 weeks ago"

\* stripHtml was applied to a text it had returned, and has returned again.
Reapplied == mode = "stripHtml" /\ pc = "done" /\ args.pass = 2

\* C16 as claimed: stripHtml applied to its own output returns it unchanged,
\* for every text.
C16_Idempotent == Reapplied => result.text = args.html

\* A text in which stripHtml finds nothing to remove or decode: no "<"
\* with a ">" after it and none of the five entities.
PlainText(t) ==
  /\ ~\E i, j \in 1..Len(t) : i < j /\ CharAt(t, i) = "<" /\ CharAt(t, j) = ">"
  /\ \A entity \in { "&nbsp;", "&amp;", "&lt;", "&gt;", "&quot;" } : ~Includes(t, entity)

\* C16 as amended: stripHtml applied to its own output returns it unchanged
\* exactly when that output is plain text; an output that still holds a tag
\* or an entity (left by decoding an escaped one) is changed again.
C16_IdempotentOnPlainText == Reapplied => (result.text = args.html <=> PlainText(args.html))

\* C16 witness: "&amp;amp;" was stripped to "&amp;", and that to "&".
C16_Witness == Reapplied /\ args.html = "&amp;" /\ result.text = "&"

\* In the rendered inbox of one of the given entry points, the text shown on
\* the content line of every task is its comment body, or else its
\* description, stripped and with every mention collapsed to "@" and the
\* label (and, in the script without --full, truncated).
MentionsCollapsed(modes) ==
  LET tasks == tasksResponse.data
      HasComment(i) == Len(promises[i].value.data) > 0
      Latest(i) == promises[i].value.data[1]
      Description(i) ==
        IF tasks[i].attributes.description \in {Undefined, ""} THEN ""
        ELSE Stripped(tasks[i].attributes.description)
      AuthorPrefix(i) == "   " \o authorNameOf(Latest(i), personMap, "Unknown") \o ": "
      Shown(text) ==
        IF mode = "cli_inbox" /\ ~args.showFull THEN truncate(text, MAX_CONTENT_LENGTH) ELSE text
      Line(i) ==
        IF mode = "cli_inbox" THEN stdout[3 * i]
        ELSE SubSeq(tasksOutput[i],
                    Len(blockHeader(i, tasks[i], config, projectMap)) + 2, Len(tasksOutput[i]))
  IN (mode \in modes /\ (ToolRendered \/ CliRendered)) =>
       \A i \in 1..Len(tasks) :
         /\ HasComment(i) =>
              Line(i) = AuthorPrefix(i) \o Shown(cleanMentions(Stripped(Latest(i).attributes.body)))
         /\ (~HasComment(i) /\ Description(i) # "") =>
              Line(i) = "   Description: " \o Shown(cleanMentions(Description(i)))
         /\ ~Includes(Line(i), "@[{")

\* C17: in the tool's output as well as in the script's, the text of every
\* content line is stripped and has its mentions collapsed; no raw mention
\* payload is shown.
C17_MentionsCollapsed == MentionsCollapsed({"task_inbox", "cli_inbox"})

\* The same for the command-line script alone, which calls cleanMentions.
C17_CliMentionsCollapsed == MentionsCollapsed({"cli_inbox"})

\* What invocation i returns when its comments are in, computed from its own
\* arguments, the configuration and the responses to its own requests alone.
OwnOutput(i) ==
  LET commentResponses == [k \in DOMAIN promises[i] |-> promises[i][k].value]
      projects == ProjectMapOf(tasksResponse[i])
      people == PersonMapOf(commentResponses)
      latest == TaskCommentMapOf(TaskIdsOf(tasksResponse[i]), commentResponses)
      blocks == tasksOutputOf(tasksResponse[i].data, config, projects, latest, people)
      items == actionItemsOf(tasksResponse[i].data, Len(tasksResponse[i].data), latest, people, TRUE)
  IN Content(inboxHeader(tasksResponse[i]) \o "\n\n" \o JoinWith(blocks, "\n\n")
               \o actionItemsSection(items))

\* Invocation i has rendered an inbox.
RenderedBy(i) ==
  pc[i] = "done" /\ result[i].kind = "content" /\ Len(tasksResponse[i].data) > 0

\* A step in which invocation i does not run: neither its position nor its
\* promises move.
Idle(i) == pc'[i] = pc[i] /\ promises'[i] = promises[i]

\* C18: of two task_inbox calls in flight together, a step of one leaves the
\* project lookup, the person lookup, the task-to-comment map, the requests
\* and the result of the other as they were, and the inbox each returns is
\* the one computed from its own arguments, the configuration and the
\* responses to its own requests.
C18_NoSharedState ==
  /\ [][\A i \in Invocations :
          Idle(i) => /\ projectMap'[i] = projectMap[i]
                     /\ personMap'[i] = personMap[i]
                     /\ taskCommentMap'[i] = taskCommentMap[i]
                     /\ requests'[i] = requests[i]
                     /\ tasksResponse'[i] = tasksResponse[i]
                     /\ result'[i] = result[i]]_vars
  /\ [](\A i \in Invocations : RenderedBy(i) => result[i] = OwnOutput(i))

\* One call has returned its inbox while the other, whose task list inlined
\* other projects, is still waiting for its comments.
C18_Witness ==
  /\ RenderedBy("a")
  /\ pc["b"] = "awaitComments"
  /\ projectMap["a"] # projectMap["b"]
  /\ personMap["a"] # << >>

\* C19: every request of an inbox view is a GET. Once the task list has come
\* with N >= 1 tasks the requests are the task-listing request followed by N
\* comment-listing requests, one per task, and no other. A request is issued
\* only at the start of the view and on the arrival of the task list, as an
\* addition to those issued before: never after a response has failed.
C19_ReadsOnlyNoRetry ==
  /\ [](InboxView =>
          /\ \A k \in DOMAIN requests : requests[k].method = "GET"
          /\ Len(tasksResponse.data) > 0 =>
               /\ Len(requests) = 1 + Len(tasksResponse.data)
               /\ requests[1].path = "tasks"
               /\ \A k \in DOMAIN tasksResponse.data :
                    /\ requests[1 + k].path = "comments"
                    /\ QueryValue(requests[1 + k], "filter[task_id]") = tasksResponse.data[k].id
          /\ FailureReasons # {} => Len(requests) = 1 + Len(promises))
  /\ [][(InboxView /\ requests' # requests) =>
          /\ pc \in {"start", "awaitTasks"}
          /\ FailureReasons = {}
          /\ tasksPromise'.state # "rejected"
          /\ SubSeq(requests', 1, Len(requests)) = requests]_vars

\* C19 witness: the task list came with as many tasks as a page holds, one
\* comment request was answered and another failed, and the view is over with
\* the requests it had issued.
C19_Witness ==
  /\ InboxView /\ pc = "done"
  /\ Len(tasksResponse.data) = MaxTasks
  /\ Len(requests) = 1 + MaxTasks
  /\ \E i, j \in DOMAIN promises :
       promises[i].state = "fulfilled" /\ promises[j].state = "rejected"

\* The PATCH of a reposition_task call has been sent.
Repositioned == mode = "reposition_task" /\ Len(requests) = 3

\* The attributes the PATCH carries.
SentAttributes == requests[3].body.data.attributes

\* The other tasks found: those of the listing that are not the task of the
\* call and, when the task's list id is known, are in that list.
OtherTasksFound ==
  LET taskListId == promises[1].value.data.relationships.task_list
  IN { tasksResponse.data[i] : i \in { j \in DOMAIN tasksResponse.data :
         /\ tasksResponse.data[j].id # args.taskId
         /\ ~Falsy(taskListId) => tasksResponse.data[j].relationships.task_list = taskListId } }

\* The id is that of one of the other tasks found whose placement (an absent
\* one counting as 0) is the least, for direction 1, or the greatest, for -1.
ExtremeAnchor(id, direction) ==
  \E t \in OtherTasksFound :
    /\ t.id = id
    /\ \A u \in OtherTasksFound : direction * (placementOf(t) - placementOf(u)) <= 0

\* C20 as stated: with moveToTop and another task found the PATCH carries as
\* move_before_id the id of a found task of least placement, and with
\* moveToBottom it carries as move_after_id the id of one of greatest
\* placement; the anchor is another task and, the list id known, of that list.
C20_AnchorsByPlacement ==
  Repositioned =>
    /\ (args.moveToTop /\ OtherTasksFound # {}) => ExtremeAnchor(SentAttributes.move_before_id, 1)
    /\ (args.moveToBottom /\ OtherTasksFound # {}) =>
         ExtremeAnchor(SentAttributes.move_after_id, 0 - 1)

\* C20 amended: moveToTop takes precedence. With moveToTop and another task
\* found the PATCH carries as move_before_id the id of a found task of least
\* placement and no move_after_id; with moveToBottom and not moveToTop it
\* carries as move_after_id the id of a found task of greatest placement and
\* no move_before_id. The anchor is another task and, the list id known, of
\* that list.
C20_AnchorsByPlacementTopFirst ==
  Repositioned =>
    /\ (args.moveToTop /\ OtherTasksFound # {}) =>
         /\ ExtremeAnchor(SentAttributes.move_before_id, 1)
         /\ SentAttributes.move_after_id = Undefined
    /\ (args.moveToBottom /\ ~args.moveToTop /\ OtherTasksFound # {}) =>
         /\ ExtremeAnchor(SentAttributes.move_after_id, 0 - 1)
         /\ SentAttributes.move_before_id = Undefined

\* C20 witness: a move to the bottom of a known list; the listing holds a
\* task of another list with the greatest placement there is, the task of
\* the call, and a task of the known list, whose id the PATCH carries as
\* move_after_id.
C20_Witness ==
  /\ Repositioned
  /\ args.moveToBottom /\ ~args.moveToTop
  /\ promises[1].value.data.relationships.task_list = "L1"
  /\ Len(tasksResponse.data) = 3
  /\ tasksResponse.data[1].id = "2" /\ tasksResponse.data[1].relationships.task_list = "L2"
  /\ tasksResponse.data[1].attributes.placement = << MaxPlacement >>
  /\ tasksResponse.data[2].id = "1"
  /\ tasksResponse.data[3].id = "3" /\ tasksResponse.data[3].relationships.task_list = "L1"
  /\ SentAttributes.move_after_id = "3"

\* The reposition_task call is over and did not fail.
RepositionSucceeded ==
  /\ mode = "reposition_task" /\ pc = "done"
  /\ result.kind = "content" /\ ~StartsWith(result.text, "Error repositioning task:")

\* The positions in requests of the PATCH requests.
PatchesSent == { k \in DOMAIN requests : requests[k].method = "PATCH" }

\* An anchor the call was given, or none.
Given(anchor) == IF Falsy(anchor) THEN Undefined ELSE anchor

\* C21: a reposition_task call sends at most one PATCH, as its third request
\* after the GET of the task and the GET of the listing have both been
\* answered, and a call that did not fail has sent exactly one. Its
\* attributes follow a fixed precedence: with moveToTop and another task
\* found a move_before_id alone, the id of a task found; else with
\* moveToBottom and another task found a move_after_id alone, the id of a
\* task found; else the anchors the call was given; else none.
C21_OneRepositionByPrecedence ==
  mode = "reposition_task" =>
    /\ PatchesSent \subseteq {3}
    /\ RepositionSucceeded => PatchesSent = {3}
    /\ PatchesSent = {3} =>
         /\ requests[1] = getTask(args.taskId) /\ promises[1].state = "fulfilled"
         /\ requests[2].method = "GET" /\ requests[2].path = "tasks"
         /\ tasksPromise.state = "fulfilled"
         /\ requests[3].path = "tasks/" \o args.taskId \o "/reposition"
         /\ IF args.moveToTop /\ OtherTasksFound # {}
            THEN /\ SentAttributes.move_before_id \in { t.id : t \in OtherTasksFound }
                 /\ SentAttributes.move_after_id = Undefined
            ELSE IF args.moveToBottom /\ OtherTasksFound # {}
            THEN /\ SentAttributes.move_after_id \in { t.id : t \in OtherTasksFound }
                 /\ SentAttributes.move_before_id = Undefined
            ELSE /\ SentAttributes.move_before_id = Given(args.move_before_id)
                 /\ SentAttributes.move_after_id = Given(args.move_after_id)

\* C21 witness: a call with moveToBottom and a move_before_id whose listing
\* held no other task succeeded after sending the move_before_id it was given.
C21_Witness ==
  /\ RepositionSucceeded
  /\ args.moveToBottom /\ ~args.moveToTop /\ args.move_before_id = "3"
  /\ OtherTasksFound = {}
  /\ Len(tasksResponse.data) > 0
  /\ SentAttributes.move_before_id = "3"

\* The reasons of the requests of a reposition_task call that failed: the
\* read of the task, the listing, or the PATCH.
RepositionFailures ==
  (IF tasksPromise.state = "rejected" THEN { tasksPromise.reason } ELSE {})
    \cup { promises[i].reason : i \in { j \in DOMAIN promises : promises[j].state = "rejected" } }

\* C22: once a request of a reposition_task call has failed, the call is over
\* and its result is a text content, "Error repositioning task: " followed
\* by the message of the failure, with no word of success in it; after
\* taskRepositionTool has issued its first request nothing is ever thrown.
C22_FailureIsText ==
  mode = "reposition_task" =>
    /\ requests # << >> => result.kind \in {"pending", "content"}
    /\ RepositionFailures # {} =>
         /\ pc = "done"
         /\ result.kind = "content"
         /\ \E reason \in RepositionFailures : result.text = "Error repositioning task: " \o reason
         /\ ~Includes(result.text, "repositioned successfully")
         /\ ~Includes(result.text, "completed successfully")

\* C22 witness: the task was read and the tasks listed, the PATCH was
\* answered 404, and the call returned the text of that error.
C22_Witness ==
  /\ mode = "reposition_task" /\ pc = "done"
  /\ Len(promises) = 2 /\ promises[1].state = "fulfilled" /\ promises[2].state = "rejected"
  /\ tasksPromise.state = "fulfilled"
  /\ result = Content("Error repositioning task: Task 1 not found or cannot be repositioned.")

\* C23: when the text returned by a reposition_task call says the task was
\* moved to the top of the list, the PATCH carried as move_before_id alone
\* the id of a found task of least placement; when it says to the bottom, the
\* PATCH carried as move_after_id alone the id of a found task of greatest
\* placement.
C23_MessageMatchesRequest ==
  RepositionSucceeded =>
    /\ Includes(result.text, "to the top of the list") =>
         /\ OtherTasksFound # {}
         /\ ExtremeAnchor(SentAttributes.move_before_id, 1)
         /\ SentAttributes.move_after_id = Undefined
    /\ Includes(result.text, "to the bottom of the list") =>
         /\ OtherTasksFound # {}
         /\ ExtremeAnchor(SentAttributes.move_after_id, 0 - 1)
         /\ SentAttributes.move_before_id = Undefined

\* The same for the calls whose listing held another task to anchor on.
C23_MessageMatchesRequestWhenAnchored ==
  (RepositionSucceeded /\ OtherTasksFound # {}) => C23_MessageMatchesRequest

\* The positions in requests of the requests that write.
WritesSent == { k \in DOMAIN requests : requests[k].method # "GET" }

\* C24: an update_page call sends its update only as its second request,
\* after the read of the page was answered with a page, and the update
\* carries the version_number of that page, whatever it is, and none when
\* the page has none; when the read is answered without a page the call
\* returns "Page ... not found." and no update is ever sent.
C24_ReadBeforeWrite ==
  mode = "update_page" =>
    /\ WritesSent \subseteq {2}
    /\ WritesSent = {2} =>
         /\ requests[1] = getPage(args.page_id)
         /\ promises[1].state = "fulfilled" /\ promises[1].value.data # << >>
         /\ requests[2].path = "pages/" \o args.page_id
         /\ requests[2].body.data.attributes.version_number
              = promises[1].value.data.attributes.version_number
    /\ (Len(promises) > 0 /\ promises[1].state = "fulfilled" /\ promises[1].value.data = << >>) =>
         /\ pc = "done" /\ WritesSent = {}
         /\ result = Content("Page " \o args.page_id \o " not found.")

\* C24 witness: the page was read at version 0 and the update sent carries
\* version_number 0.
C24_Witness ==
  /\ mode = "update_page" /\ pc = "awaitUpdate"
  /\ promises[1].value.data.attributes.version_number = << 0 >>
  /\ requests[2].method = "PATCH"
  /\ requests[2].body.data.attributes.version_number = << 0 >>

\* A call of create_task or update_task_assignment whose arguments pass the
\* schema and whose assignee is "me".
AssigneeIsMe ==
  \/ mode = "create_task" /\ createTaskSchemaIssues(args) = << >> /\ args.assignee_id = << "me" >>
  \/ /\ mode = "update_task_assignment" /\ updateTaskAssignmentSchemaIssues(args) = << >>
     /\ args.assignee_id = "me"

\* The one request sent names the configured user as the assignee.
ConfiguredUserSent ==
  /\ Len(requests) = 1
  /\ IF mode = "create_task"
     THEN requests[1].body.data.relationships.assignee
            = << [data |-> [id |-> config.PRODUCTIVE_USER_ID, type |-> "people"]] >>
     ELSE requests[1].body.data.relationships.assignee.data
            = << [id |-> config.PRODUCTIVE_USER_ID, type |-> "people"] >>

\* The call is over, or waits for the answer to its request.
PastStart == pc # "start"

\* C25: create_task and update_task_assignment called with the assignee "me"
\* and no user id configured end in an McpError with the code InvalidParams
\* and send no request; with a user id configured the request sent names
\* the configured user as the assignee.
C25_MeNeedsUser ==
  (AssigneeIsMe /\ PastStart) =>
    IF ~userConfigured(config)
    THEN result.kind = "McpError" /\ result.code = "InvalidParams" /\ requests = << >>
    ELSE ConfiguredUserSent

\* What holds of the code: the same, the error being an McpError with the
\* code InternalError whose message ends with that of the InvalidParams
\* error thrown inside the tool.
C25_MeNeedsUserInternalError ==
  (AssigneeIsMe /\ PastStart) =>
    IF ~userConfigured(config)
    THEN /\ result = McpError("InternalError", messageOf(MeNotConfigured))
         /\ requests = << >>
    ELSE ConfiguredUserSent

\* A call of update_task_details whose arguments pass the schema.
DetailsCall == mode = "update_task_details" /\ updateTaskDetailsSchemaIssues(args) = << >>

\* The update sent holds the title exactly when one was given and the
\* description exactly when one was given, the empty one included, each as
\* given, and no relationship.
OnlyGivenFieldsSent ==
  /\ Len(requests) = 1
  /\ requests[1].method = "PATCH" /\ requests[1].path = "tasks/" \o args.task_id
  /\ requests[1].body.data.attributes.title = args.title
  /\ requests[1].body.data.attributes.description = args.description
  /\ "relationships" \notin DOMAIN requests[1].body.data

\* C26: update_task_details sends an update with the title iff a title was
\* given and the description iff a description was given, and with no
\* relationship; called with neither it ends in an McpError with the code
\* InvalidParams and sends no request.
C26_OnlyGivenFields ==
  (DetailsCall /\ PastStart) =>
    IF args.title = << >> /\ args.description = << >>
    THEN result.kind = "McpError" /\ result.code = "InvalidParams" /\ requests = << >>
    ELSE OnlyGivenFieldsSent

\* What holds of the code: the same, the error of a call with neither field
\* being an McpError with the code InternalError.
C26_OnlyGivenFieldsInternalError ==
  (DetailsCall /\ PastStart) =>
    IF args.title = << >> /\ args.description = << >>
    THEN result = McpError("InternalError", messageOf(NoFieldGiven)) /\ requests = << >>
    ELSE OnlyGivenFieldsSent

\* The response of a listing that was answered and was not empty.
Listed == pc = "done" /\ result.kind = "content" /\ Len(tasksResponse.data) > 0

TopLevelOnly == args.top_level_only = << TRUE >>

\* The positions of the returned tasks that have attributes and, when only
\* top-level tasks are asked for, no parent task.
ExpectedPositions ==
  { i \in DOMAIN tasksResponse.data :
      /\ "attributes" \in DOMAIN tasksResponse.data[i]
      /\ TopLevelOnly => Falsy(tasksResponse.data[i].relationships.parent_task) }

\* The tasks at these positions, in response order.
ExpectedTasks ==
  [k \in 1..Cardinality(ExpectedPositions) |->
     tasksResponse.data[CHOOSE i \in ExpectedPositions :
                          Cardinality({ j \in ExpectedPositions : j < i }) = k - 1]]

\* The blocks of the expected tasks, as the tool of the invocation renders
\* one task.
ExpectedBlocks ==
  JoinWith([k \in DOMAIN ExpectedTasks |->
              IF mode = "my_tasks"
              THEN myTaskText(ExpectedTasks[k], taskTitleMapOf(tasksResponse))
              ELSE listedTaskText(ExpectedTasks[k], listedPersonMapOf(tasksResponse),
                                  taskTitleMapOf(tasksResponse), mode = "list_tasks")],
           "\n\n")

\* The opening of the summary up to the count it reports.
CountReported(n) ==
  IF mode = "my_tasks" THEN "You have " \o countText(n) \o " assigned to you"
  ELSE IF mode = "list_tasks" THEN "Found " \o countText(n)
  ELSE "Project " \o args.project_id \o " has " \o countText(n)

NoTopLevelText ==
  IF mode = "my_tasks"
  THEN "You have no top-level tasks assigned to you (all your tasks are subtasks)."
  ELSE IF mode = "list_tasks"
  THEN "No top-level tasks found matching the criteria (all tasks are subtasks)."
  ELSE "No top-level tasks found for project " \o args.project_id \o " (all tasks are subtasks)."

\* The text after the count and the notes of the summary.
AfterColon(text) == Drop(text, IndexFrom(text, ":", 1) + 3)

\* C27: with top_level_only set, my_tasks, list_tasks and get_project_tasks
\* render exactly the returned tasks that have no parent task, in response
\* order, report their number as the count, and return the 'no top-level
\* tasks' message when every returned task is a subtask; without the flag
\* every returned task that has attributes is rendered.
C27_TopLevelOnly ==
  Listed =>
    IF ExpectedTasks = << >>
    THEN TopLevelOnly => result.text = NoTopLevelText
    ELSE /\ StartsWith(result.text, CountReported(Len(ExpectedTasks)))
         /\ AfterColon(result.text) = ExpectedBlocks

\* Witness: a listing tool, asked for top-level tasks only, was answered with
\* a subtask followed by a top-level task and reported one task.
C27_Witness ==
  /\ Listed /\ TopLevelOnly
  /\ Len(tasksResponse.data) = 2
  /\ ExpectedPositions = { 2 }
  /\ "attributes" \in DOMAIN tasksResponse.data[1]
  /\ StartsWith(result.text, CountReported(1))

\* The requests the inbox view sent for comments: all but the first.
CommentRequestsOfInbox ==
  IF mode \in {"task_inbox", "cli_inbox"} THEN 2..Len(requests) ELSE { }

\* C28: every comment request of the inbox view carries the task-id filter of
\* its own task, the sort by creation time descending and the page size one;
\* a direct call of listComments sends the task filter, with the id passed,
\* only when exactly one task id is passed.
C28_CommentRequestOwnTask ==
  /\ \A k \in CommentRequestsOfInbox :
       /\ requests[k].path = "comments"
       /\ QueryValue(requests[k], "filter[task_id]") = tasksResponse.data[k - 1].id
       /\ QueryValue(requests[k], "sort") = "-created_at"
       /\ QueryValue(requests[k], "page[size]") = "1"
  /\ mode = "listComments" /\ pc = "done" =>
       /\ QueryValue(requests[1], "sort") = "-created_at"
       /\ QueryValue(requests[1], "filter[task_id]") =
            (IF Len(args.task_ids) = 1 THEN args.task_ids[1] ELSE Undefined)

\* Witness: the inbox view has sent the comment requests of two tasks.
C28_Witness ==
  /\ mode = "task_inbox" /\ Len(requests) = 3
  /\ QueryValue(requests[3], "filter[task_id]") = tasksResponse.data[2].id

\* A direct call with two task ids was sent without a task filter.
C28_SeveralIdsWitness ==
  /\ mode = "listComments" /\ pc = "done" /\ Len(args.task_ids) = 2
  /\ QueryValue(requests[1], "filter[task_id]") = Undefined

\* The suggestions the script printed: the lines after "Suggested Actions:".
PrintedActions == IF stdout = << >> THEN << >> ELSE Tail(stdout)

\* The sentences that tell the categories apart.
CategorySentences ==
  << " is asking about closing this task.", "Review requested by ", " is asking for help.",
     " needs you to publish something.", " asked a question.", "You were mentioned.",
     "CRITICAL bug needs immediate attention.", "Bug to investigate." >>

\* The categories a suggestion reads as.
CategoriesOf(item) ==
  { k \in DOMAIN CategorySentences : Includes(item, CategorySentences[k]) }

\* What the tool adds to the wording of the script.
WordingSuffixes == { "", " Review and respond.", " Respond.", " Check and respond." }

TableLabels ==
  { "today", "1 day ago", "1 week ago", "1 month ago" }
  \cup { ToString(n) \o " days ago" : n \in 2..6 }
  \cup { ToString(n) \o " weeks ago" : n \in 2..4 }

RelativeAgeRendered == mode = "formatRelativeTime" /\ pc = "done"

\* C30: the label of formatRelativeTime is one of the table's, with a count
\* of days or weeks that is not negative, also for a timestamp later than the
\* clock's reading.
C30_NeverNegative ==
  RelativeAgeRendered =>
    result.text \in TableLabels \/ StartsWith(result.text, "day ")

\* What formatRelativeTime returns for a timestamp later than the clock:
\* the negative whole-day difference followed by " days ago"; a timestamp
\* that is not later than the clock's reading gets a label of the table.
C30_FutureRendersNegative ==
  RelativeAgeRendered =>
    LET ahead == args.attributes.last_activity_at - Now
        days == (ahead + HoursPerDay - 1) \div HoursPerDay
    IN IF ahead > 0
       THEN result.text = "-" \o ToString(days) \o " days ago"
       ELSE result.text \in TableLabels \/ StartsWith(result.text, "day ")

\* A timestamp one hour ahead was rendered as "-1 days ago".
C30_Witness ==
  /\ RelativeAgeRendered
  /\ args.attributes.last_activity_at = Now + 1
  /\ result.text = "-1 days ago"

=============================================================================
